---- MODULE Spec2Model ----
(***************************************************************************)
(* Verification model of mr_sqlite: the PostgREST-style filter parser      *)
(* (filters/parser.py, filters/operators.py) and the SQLite client         *)
(* (client.py).                                                            *)
(*                                                                         *)
(* Python strings are sequences of one-character strings, so that split,   *)
(* strip, lower, isdigit, int and float are computed character by          *)
(* character.  A Python exception is a record [status |-> "ValueError",    *)
(* msg |-> ...]; a normal return is a record with status "ok".             *)
(***************************************************************************)
EXTENDS Integers, Sequences, FiniteSets, TLC

VARIABLES
    fn,        \* parser harness: the function under call ("parse_filter", ...)
    input,     \* parser harness: its string argument
    pc,        \* parser harness: "call" before the call, "done" after it
    result,    \* parser harness: what the call returned or raised
    conn,      \* client: the sqlite3 connection and the database behind it
    tableKind, \* client: how the table t was declared
    call,      \* client: the last call, its arguments and its outcome
    lock,      \* mod: db_write_lock
    task,      \* mod: the tasks that run commands, each with its position
    instance,  \* singleton: SQLiteClient._instance
    environ,   \* singleton: os.environ["SQLITE_IN_MEMORY"]
    calls,     \* singleton: the number of get_instance calls made
    history    \* singleton: the get_instance calls since the last reset_instance

parserVars == <<fn, input, pc, result>>
clientVars == <<conn, tableKind, call>>
modVars == <<lock, task>>
singletonVars == <<instance, environ, calls, history>>

(***************************************************************************)
(* Characters                                                              *)
(***************************************************************************)

\* U+00B2 SUPERSCRIPT TWO: str.isdigit() is True for it, int() rejects it.
SuperscriptTwo == "U+00B2"

AsciiDigits == <<"0", "1", "2", "3", "4", "5", "6", "7", "8", "9">>

UpperLetters ==
    <<"A", "B", "C", "D", "E", "F", "G", "H", "I", "J", "K", "L", "M",
      "N", "O", "P", "Q", "R", "S", "T", "U", "V", "W", "X", "Y", "Z">>

LowerLetters ==
    <<"a", "b", "c", "d", "e", "f", "g", "h", "i", "j", "k", "l", "m",
      "n", "o", "p", "q", "r", "s", "t", "u", "v", "w", "x", "y", "z">>

Range(s) == {s[i] : i \in DOMAIN s}

IndexIn(c, s) == CHOOSE i \in DOMAIN s : s[i] = c

IsWhitespace(c) == c = " "

IsAsciiDigit(c) == c \in Range(AsciiDigits)

DigitValue(c) == IndexIn(c, AsciiDigits) - 1

\* str.lower() / str.upper() on one character
LowerChar(c) == IF c \in Range(UpperLetters) THEN LowerLetters[IndexIn(c, UpperLetters)] ELSE c

UpperChar(c) == IF c \in Range(LowerLetters) THEN UpperLetters[IndexIn(c, LowerLetters)] ELSE c

Lower(s) == [i \in DOMAIN s |-> LowerChar(s[i])]

Upper(s) == [i \in DOMAIN s |-> UpperChar(s[i])]

(***************************************************************************)
(* Python string primitives                                                *)
(***************************************************************************)

RECURSIVE LStrip(_)
LStrip(s) == IF s # <<>> /\ IsWhitespace(Head(s)) THEN LStrip(Tail(s)) ELSE s

RECURSIVE RStrip(_)
RStrip(s) ==
    IF s # <<>> /\ IsWhitespace(s[Len(s)]) THEN RStrip(SubSeq(s, 1, Len(s) - 1)) ELSE s

\* str.strip()
Strip(s) == RStrip(LStrip(s))

\* str.split(sep, maxsplit) for a one-character sep; maxsplit = -1: no limit
RECURSIVE Split(_, _, _)
Split(s, sep, maxsplit) ==
    IF maxsplit = 0 \/ sep \notin Range(s)
    THEN <<s>>
    ELSE LET i == CHOOSE k \in DOMAIN s : s[k] = sep /\ \A j \in 1..(k - 1) : s[j] # sep
         IN  <<SubSeq(s, 1, i - 1)>> \o Split(SubSeq(s, i + 1, Len(s)), sep, maxsplit - 1)

\* sep.join(parts)
RECURSIVE Join(_, _)
Join(parts, sep) ==
    IF parts = <<>> THEN <<>>
    ELSE IF Len(parts) = 1 THEN parts[1]
    ELSE parts[1] \o sep \o Join(Tail(parts), sep)

\* str.startswith(prefix)
StartsWith(s, prefix) == Len(s) >= Len(prefix) /\ SubSeq(s, 1, Len(prefix)) = prefix

\* [x] * n
RECURSIVE Repeat(_, _)
Repeat(x, n) == IF n <= 0 THEN <<>> ELSE <<x>> \o Repeat(x, n - 1)

\* str.isdigit(): non-empty and every character has Numeric_Type Digit or Decimal
IsDigit(s) == s # <<>> /\ \A i \in DOMAIN s : IsAsciiDigit(s[i]) \/ s[i] = SuperscriptTwo

\* raise ValueError(msg)
Raise(msg) == [status |-> "ValueError", msg |-> msg]

(***************************************************************************)
(* filters/operators.py                                                    *)
(***************************************************************************)

\* FilterOperator members (operators.py:10-26)
Op_EQ == <<"e", "q">>
Op_NEQ == <<"n", "e", "q">>
Op_GT == <<"g", "t">>
Op_GTE == <<"g", "t", "e">>
Op_LT == <<"l", "t">>
Op_LTE == <<"l", "t", "e">>
Op_IS == <<"i", "s">>
Op_LIKE == <<"l", "i", "k", "e">>
Op_ILIKE == <<"i", "l", "i", "k", "e">>
Op_IN == <<"i", "n">>
Op_NOT == <<"n", "o", "t">>

\* the values FilterOperator(...) accepts
FilterOperator == {Op_EQ, Op_NEQ, Op_GT, Op_GTE, Op_LT, Op_LTE, Op_IS, Op_LIKE, Op_ILIKE, Op_IN, Op_NOT}

\* SQLOperatorMap.OPERATORS: pairs <<operator, SQL text>>
OPERATORS ==
    << <<Op_EQ, <<"=">> >>,
       <<Op_NEQ, <<"!", "=">> >>,
       <<Op_GT, <<">">> >>,
       <<Op_GTE, <<">", "=">> >>,
       <<Op_LT, <<"<">> >>,
       <<Op_LTE, <<"<", "=">> >>,
       <<Op_IS, <<"I", "S">> >>,
       <<Op_LIKE, <<"L", "I", "K", "E">> >>,
       <<Op_ILIKE, <<"L", "I", "K", "E", " ", "C", "O", "L", "L", "A", "T", "E", " ",
                  "N", "O", "C", "A", "S", "E">> >>,
       <<Op_IN, <<"I", "N">> >> >>

\* mutant: an operator missing from the table falls back to "=" instead of raising
get_sql_operator_fallback(operator) ==
    IF \E i \in DOMAIN OPERATORS : OPERATORS[i][1] = operator
    THEN [status |-> "ok",
          value |-> OPERATORS[CHOOSE i \in DOMAIN OPERATORS : OPERATORS[i][1] = operator][2]]
    ELSE [status |-> "ok", value |-> <<"=">>]

\* SQLOperatorMap.get_sql_operator: FilterOperator(operator) raises ValueError for
\* a string that is no member, OPERATORS[operator] raises KeyError for NOT; both
\* are re-raised as ValueError("Unsupported filter operator: ...")
get_sql_operator(operator) ==
    IF operator \in FilterOperator /\ \E i \in DOMAIN OPERATORS : OPERATORS[i][1] = operator
    THEN [status |-> "ok",
          value |-> OPERATORS[CHOOSE i \in DOMAIN OPERATORS : OPERATORS[i][1] = operator][2]]
    ELSE Raise("Unsupported filter operator")

\* SQLOperatorMap.is_negated: <<is_negated, base_operator>>
is_negated(operator) ==
    IF StartsWith(operator, Op_NOT \o <<".">>)
    THEN <<TRUE, SubSeq(operator, Len(Op_NOT \o <<".">>) + 1, Len(operator))>>
    ELSE <<FALSE, operator>>

(***************************************************************************)
(* Python values bound as SQL parameters                                   *)
(***************************************************************************)

PyNone == [t |-> "NoneType"]
PyBool(b) == [t |-> "bool", b |-> b]
PyInt(i) == [t |-> "int", i |-> i]
PyStr(s) == [t |-> "str", s |-> s]
\* a float as the exact decimal (-1)^neg * mant * 10^(-scale), mant not a multiple
\* of 10 unless it is 0; inf and nan by kind
PyFloat(neg, mant, scale) == [t |-> "float", kind |-> "finite", neg |-> neg, mant |-> mant, scale |-> scale]
PyFloatSpecial(neg, kind) == [t |-> "float", kind |-> kind, neg |-> neg, mant |-> 0, scale |-> 0]

IsDecimalDigits(s) == s # <<>> /\ \A i \in DOMAIN s : IsAsciiDigit(s[i])

RECURSIVE DigitsValue(_)
DigitsValue(s) ==
    IF s = <<>> THEN 0
    ELSE DigitsValue(SubSeq(s, 1, Len(s) - 1)) * 10 + DigitValue(s[Len(s)])

\* int(s) for a string that passed isdigit(): only decimal digits are accepted
PyIntOf(s) ==
    IF IsDecimalDigits(s) THEN [status |-> "ok", value |-> PyInt(DigitsValue(s))]
    ELSE Raise("invalid literal for int() with base 10")

HasSign(s) == s # <<>> /\ s[1] \in {"+", "-"}
Unsigned(s) == IF HasSign(s) THEN Tail(s) ELSE s

INF == <<"i", "n", "f">>
INFINITY == <<"i", "n", "f", "i", "n", "i", "t", "y">>
NAN == <<"n", "a", "n">>

IsMantissa(m) ==
    LET p == Split(m, ".", -1)
    IN  /\ Len(p) <= 2
        /\ \A i \in DOMAIN p : \A j \in DOMAIN p[i] : IsAsciiDigit(p[i][j])
        /\ \E i \in DOMAIN p : p[i] # <<>>

IsExponent(e) == IsDecimalDigits(Unsigned(e))

\* whether float(s) returns: [ws] [sign] (inf | infinity | nan | digits[.digits][e[sign]digits]) [ws]
FloatParses(s) ==
    LET u == Lower(Unsigned(Strip(s)))
        p == Split(u, "e", 1)
    IN  \/ u \in {INF, INFINITY, NAN}
        \/ /\ IsMantissa(p[1])
           /\ Len(p) = 2 => IsExponent(p[2])

RECURSIVE Normalize(_, _, _)
Normalize(neg, mant, scale) ==
    IF mant = 0 THEN PyFloat(neg, 0, 0)
    ELSE IF mant % 10 = 0 THEN Normalize(neg, mant \div 10, scale - 1)
    ELSE PyFloat(neg, mant, scale)

\* float(s) where FloatParses(s)
FloatOf(s) ==
    LET t == Strip(s)
        neg == t # <<>> /\ t[1] = "-"
        u == Lower(Unsigned(t))
        p == Split(u, "e", 1)
        m == Split(p[1], ".", -1)
        frac == IF Len(m) = 2 THEN m[2] ELSE <<>>
        exp == IF Len(p) = 2
               THEN (IF p[2][1] = "-" THEN -1 ELSE 1) * DigitsValue(Unsigned(p[2]))
               ELSE 0
    IN  IF u \in {INF, INFINITY} THEN PyFloatSpecial(neg, "inf")
        ELSE IF u = NAN THEN PyFloatSpecial(neg, "nan")
        ELSE Normalize(neg, DigitsValue(m[1] \o frac), Len(frac) - exp)

(***************************************************************************)
(* filters/parser.py                                                       *)
(***************************************************************************)

NULL == <<"n", "u", "l", "l">>
TRUE_ == <<"t", "r", "u", "e">>
FALSE_ == <<"f", "a", "l", "s", "e">>

\* FilterParser._convert_value
convert_value(value) ==
    IF Lower(value) = NULL THEN [status |-> "ok", value |-> PyNone]
    ELSE IF Lower(value) = TRUE_ THEN [status |-> "ok", value |-> PyBool(TRUE)]
    ELSE IF Lower(value) = FALSE_ THEN [status |-> "ok", value |-> PyBool(FALSE)]
    ELSE IF IsDigit(value) THEN PyIntOf(value)
    ELSE IF FloatParses(value) THEN [status |-> "ok", value |-> FloatOf(value)]
    ELSE [status |-> "ok", value |-> PyStr(value)]

\* the f-string piece {'' if not is_negated else 'NOT '}
NotPrefix(negated) == IF negated THEN <<"N", "O", "T", " ">> ELSE <<>>

\* mutant: one placeholder too many
InPlaceholders_extra(values) == Join(Repeat(<<"?">>, Len(values) + 1), <<",">>)

\* placeholders = ','.join(['?'] * len(values))
InPlaceholders(values) == Join(Repeat(<<"?">>, Len(values)), <<",">>)

\* mutant: the IN elements are coerced like a single value
InParams_coerced(values) == [i \in DOMAIN values |-> convert_value(values[i]).value]

\* the IN branch returns the split strings themselves as parameters
InParams(values) == [i \in DOMAIN values |-> PyStr(values[i])]

\* mutant: the literal test without lower()
IsLiteral_case_sensitive(value) == value \in {NULL, TRUE_, FALSE_}

\* value.lower() in ('null', 'true', 'false')
IsLiteral(value) == Lower(value) \in {NULL, TRUE_, FALSE_}

\* FilterParser.parse_filter
parse_filter(raw_filter) ==
    LET parts == Split(Strip(raw_filter), ".", 2)
    IN  IF Len(parts) < 3 THEN Raise("Invalid filter format")
        ELSE
        LET column == parts[1]
            operator == parts[2]
            value == parts[3]
            negated == is_negated(operator)[1]
            base_operator == is_negated(operator)[2]
            sql_operator == get_sql_operator(base_operator)
        IN  IF sql_operator.status # "ok" THEN Raise("Invalid operator in filter")
            ELSE IF base_operator = Op_IN
            THEN LET values == Split(value, ",", -1)
                     placeholders == InPlaceholders(values)
                 IN  [status |-> "ok",
                      sql |-> column \o <<" ">> \o NotPrefix(negated) \o sql_operator.value
                              \o <<" ", "(">> \o placeholders \o <<")">>,
                      params |-> InParams(values)]
            ELSE IF base_operator = Op_IS /\ IsLiteral(value)
            THEN [status |-> "ok",
                  sql |-> column \o <<" ">> \o NotPrefix(negated) \o sql_operator.value
                          \o <<" ">> \o Upper(value),
                  params |-> <<>>]
            ELSE LET param_value == convert_value(value)
                 IN  IF param_value.status # "ok" THEN param_value
                     ELSE [status |-> "ok",
                           sql |-> column \o <<" ">> \o NotPrefix(negated)
                                   \o sql_operator.value \o <<" ", "?">>,
                           params |-> <<param_value.value>>]

AND == <<" ", "A", "N", "D", " ">>

\* mutant: the first clause that fails to parse ends the loop
RECURSIVE ParseLoop_abort(_, _, _, _)
ParseLoop_abort(filter_expressions, k, conditions, all_params) ==
    IF k > Len(filter_expressions) THEN <<conditions, all_params>>
    ELSE LET r == parse_filter(filter_expressions[k])
         IN  IF r.status = "ok"
             THEN ParseLoop_abort(filter_expressions, k + 1,
                                  Append(conditions, r.sql), all_params \o r.params)
             ELSE <<conditions, all_params>>

\* the for loop of parse_raw_filters over filter_expressions[k..]: a clause whose
\* parse raises ValueError is skipped
RECURSIVE ParseLoop(_, _, _, _)
ParseLoop(filter_expressions, k, conditions, all_params) ==
    IF k > Len(filter_expressions) THEN <<conditions, all_params>>
    ELSE LET r == parse_filter(filter_expressions[k])
         IN  IF r.status = "ok"
             THEN ParseLoop(filter_expressions, k + 1,
                            Append(conditions, r.sql), all_params \o r.params)
             ELSE ParseLoop(filter_expressions, k + 1, conditions, all_params)

\* FilterParser.parse_raw_filters
parse_raw_filters(raw_filters) ==
    IF raw_filters = <<>> THEN [status |-> "ok", sql |-> <<>>, params |-> <<>>]
    ELSE LET loop == ParseLoop(Split(raw_filters, ",", -1), 1, <<>>, <<>>)
         IN  IF loop[1] = <<>> THEN [status |-> "ok", sql |-> <<>>, params |-> <<>>]
             ELSE [status |-> "ok", sql |-> Join(loop[1], AND), params |-> loop[2]]

(***************************************************************************)
(* Calls of the parser: the arguments are drawn from bounded sets          *)
(***************************************************************************)

MaxNot == 2        \* "not." segments in front of the operator token
MaxList == 3       \* elements of a comma-separated value
MaxClauses == 3    \* clauses of a raw filter string

RECURSIVE SeqsUpTo(_, _)
\* the sequences over S of length 1..n
SeqsUpTo(S, n) ==
    IF n <= 0 THEN {}
    ELSE LET shorter == SeqsUpTo(S, n - 1)
         IN  {<<x>> : x \in S} \cup shorter \cup {Append(q, x) : q \in shorter, x \in S}

Columns == {<<"a">>, <<"a", "?">>}

OperatorTokens ==
    {Op_EQ, Op_NEQ, Op_GT, Op_GTE, Op_LT, Op_LTE, Op_IS, Op_LIKE, Op_ILIKE, Op_IN,
     Op_NOT, <<"E", "Q">>, <<"x", "x">>}

ValueAtoms ==
    {<<>>, <<"5">>, <<"0", "7">>, <<"-", "5">>, <<"1", ".", "5">>, <<"1", "e", "2">>,
     <<"n", "u", "l", "l">>, <<"N", "u", "L", "L">>, <<"T", "r", "u", "e">>,
     <<"F", "A", "L", "S", "E">>, <<"a", "b">>, <<"j", "@", "x", ".", "i", "o">>,
     <<"i", "n", "f">>, <<"%", "?">>, <<SuperscriptTwo>>, <<"5", SuperscriptTwo>>}

ListAtoms == {<<"1">>, <<"n", "u", "l", "l">>, <<"b">>}

ListValues == {Join(l, <<",">>) : l \in SeqsUpTo(ListAtoms, MaxList)}

NotPrefixes == {Join(Repeat(Op_NOT, k), <<".">>) : k \in 0..MaxNot}

Dotted(prefix, rest) == IF prefix = <<>> THEN rest ELSE prefix \o <<".">> \o rest

\* column.[not. ...]operator.value
WellFormed ==
    {c \o <<".">> \o Dotted(n, o) \o <<".">> \o v :
        c \in Columns, n \in NotPrefixes, o \in OperatorTokens, v \in ValueAtoms \cup ListValues}

\* fewer than two dots
TooShort ==
    {<<>>, <<".">>, <<"a">>, <<"a", ".">>, <<"a", ".", "e", "q">>, <<"e", "q", ".", "5">>,
     <<"b", "o", "g", "u", "s">>, <<"a", ",", "b">>}

Padded(s) == <<" ">> \o s \o <<" ", " ">>

FilterInputs ==
    LET plain == WellFormed \cup TooShort IN plain \cup {Padded(s) : s \in plain}

ValueInputs ==
    ValueAtoms \cup
    {<<"+", "5">>, <<"5", ".">>, <<".", "5">>, <<".">>, <<"-">>, <<"1", ".", "2", ".", "3">>,
     <<"1", "e">>, <<"1", "E", "-", "2">>, <<"5", "0", "0">>, <<" ", "5">>, <<"5", " ">>,
     <<"N", "a", "N">>, <<"-", "I", "n", "f", "i", "n", "i", "t", "y">>,
     <<"t", "r", "u", "e", "x">>, <<"1", "0">>, <<"0">>, <<"-", "0", ".", "0">>}

RawClauses ==
    {<<"a", ".", "e", "q", ".", "1">>,
     <<"b", "o", "g", "u", "s">>,
     <<"b", ".", "g", "t", ".", "2">>,
     <<"a", ".", "i", "s", ".", "n", "u", "l", "l">>,
     <<"a", ".", "n", "o", "t", ".", "e", "q", ".", "5">>,
     <<"a", "?", ".", "l", "t", ".", "x">>,
     <<"c", ".", "i", "n", ".", "1">>,
     <<" ", "a", ".", "x", "x", ".", "1">>,
     <<"a", ".", "e", "q", ".", SuperscriptTwo>>,
     <<>>}

RawInputs == {<<>>} \cup {Join(l, <<",">>) : l \in SeqsUpTo(RawClauses, MaxClauses)}

Calls ==
    ({"parse_filter"} \X FilterInputs)
    \cup ({"parse_raw_filters"} \X RawInputs)
    \cup ({"_convert_value"} \X ValueInputs)

NoResult == [status |-> "none"]

NoCall == [op |-> "none", args |-> <<>>, before |-> <<>>, status |-> "ok", value |-> PyNone]

\* a connection to a database whose table t is empty
NewConnection(last) ==
    [db |-> <<>>, work |-> <<>>, intx |-> FALSE, last_insert_rowid |-> last, trace |-> <<>>]

\* the number of tasks that run a command of mod.py
MaxTasks == 3
Tasks == 1..MaxTasks

\* db_write_lock = asyncio.Lock(): _locked, the queue _waiters of the tasks
\* suspended in acquire(), and those of them whose future release() has set
NewLock == [locked |-> FALSE, waiters |-> <<>>, woken |-> {}]

\* a task that has not called its command yet
IdleTask ==
    [pc |-> "idle", op |-> "none", args |-> <<>>, holds |-> FALSE, statements |-> 0,
     checked |-> PyNone, affected |-> PyNone, result |-> NoResult, outcome |-> PyNone,
     cancelled |-> FALSE]

\* _instance = None
NoInstance == [id |-> 0, db_path |-> <<>>, schema_path |-> <<>>]

\* the class as it is loaded, before any call of get_instance
NoGetInstance ==
    /\ instance = NoInstance /\ environ = <<>> /\ calls = 0 /\ history = <<>>

ParserInit ==
    /\ pc = "call"
    /\ result = NoResult
    /\ \E c \in Calls : fn = c[1] /\ input = c[2]
    /\ conn = NewConnection(0) /\ tableKind = "implicit" /\ call = NoCall
    /\ lock = NewLock /\ task = [t \in Tasks |-> IdleTask]
    /\ NoGetInstance

CallParseFilter ==
    /\ pc = "call" /\ fn = "parse_filter"
    /\ result' = parse_filter(input)
    /\ pc' = "done"
    /\ UNCHANGED <<fn, input, clientVars, modVars, singletonVars>>

CallParseRawFilters ==
    /\ pc = "call" /\ fn = "parse_raw_filters"
    /\ result' = parse_raw_filters(input)
    /\ pc' = "done"
    /\ UNCHANGED <<fn, input, clientVars, modVars, singletonVars>>

CallConvertValue ==
    /\ pc = "call" /\ fn = "_convert_value"
    /\ result' = convert_value(input)
    /\ pc' = "done"
    /\ UNCHANGED <<fn, input, clientVars, modVars, singletonVars>>

ParserNext == CallParseFilter \/ CallParseRawFilters \/ CallConvertValue

SpecParser == ParserInit /\ [][ParserNext]_parserVars

(***************************************************************************)
(* Claims about the parser (C1 - C8), checked under SpecParser.            *)
(* The input is taken apart here by the positions of its dots and commas,  *)
(* independently of Split.                                                 *)
(***************************************************************************)

Min(S) == CHOOSE x \in S : \A y \in S : x <= y
Max(S) == CHOOSE x \in S : \A y \in S : x >= y

Positions(c, s) == {i \in DOMAIN s : s[i] = c}

Count(c, s) == Cardinality(Positions(c, s))

\* s without the blanks around it
Trimmed(s) ==
    LET inked == {i \in DOMAIN s : s[i] # " "}
    IN  IF inked = {} THEN <<>> ELSE SubSeq(s, Min(inked), Max(inked))

\* the k-th position of c in s
Nth(c, s, k) == CHOOSE p \in Positions(c, s) : Cardinality({q \in Positions(c, s) : q < p}) = k - 1

\* the pieces of s between its occurrences of c
Pieces(c, s) ==
    LET n == Count(c, s) + 1
    IN  [i \in 1..n |->
            SubSeq(s, IF i = 1 THEN 1 ELSE Nth(c, s, i - 1) + 1,
                      IF i = n THEN Len(s) ELSE Nth(c, s, i) - 1)]

\* column, operator token and value of an expression with at least two dots
ColumnOf(e) == SubSeq(e, 1, Nth(".", e, 1) - 1)
OperatorOf(e) == SubSeq(e, Nth(".", e, 1) + 1, Nth(".", e, 2) - 1)
ValueOf(e) == SubSeq(e, Nth(".", e, 2) + 1, Len(e))

Expr == Trimmed(input)
ThreeParts == Count(".", Expr) >= 2

Done(f) == pc = "done" /\ fn = f

\* the fixed operator table of the specification
TableOperators == {Op_EQ, Op_NEQ, Op_GT, Op_GTE, Op_LT, Op_LTE, Op_IS, Op_LIKE, Op_ILIKE, Op_IN}

TableSql(op) ==
    CASE op = Op_EQ -> <<"=">>
      [] op = Op_NEQ -> <<"!", "=">>
      [] op = Op_GT -> <<">">>
      [] op = Op_GTE -> <<">", "=">>
      [] op = Op_LT -> <<"<">>
      [] op = Op_LTE -> <<"<", "=">>
      [] op = Op_IS -> <<"I", "S">>
      [] op = Op_LIKE -> <<"L", "I", "K", "E">>
      [] op = Op_ILIKE -> <<"L", "I", "K", "E", " ", "C", "O", "L", "L", "A", "T", "E", " ",
                            "N", "O", "C", "A", "S", "E">>
      [] op = Op_IN -> <<"I", "N">>

IsLiteralValue(v) == Lower(v) \in {NULL, TRUE_, FALSE_}

\* C1: col.not.<op>.<value> is parsed as the negation of col.<op>.<value>, with the
\* same parameters; in particular a.not.eq.5 gives "a NOT = ?" with [5].
C1_NegationParses ==
    (/\ Done("parse_filter") /\ ThreeParts
     /\ OperatorOf(Expr) = Op_NOT
     /\ Count(".", ValueOf(Expr)) >= 1
     /\ Pieces(".", ValueOf(Expr))[1] \in TableOperators)
    => LET plain == parse_filter(ColumnOf(Expr) \o <<".">> \o ValueOf(Expr))
           col == ColumnOf(Expr)
       IN  plain.status = "ok"
           => /\ result.status = "ok"
              /\ result.params = plain.params
              /\ result.sql = col \o <<" ", "N", "O", "T">>
                              \o SubSeq(plain.sql, Len(col) + 1, Len(plain.sql))

\* C2: col.op.value with a single-parameter operator (eq, neq, gt, gte, lt, lte, like,
\* ilike, or is with a value that is no null/true/false literal) returns "col <SQL_OP> ?"
\* and the one-element parameter list [coerced value]; value is all that follows
\* the second dot.
C2_SingleParameter ==
    (/\ Done("parse_filter") /\ ThreeParts
     /\ OperatorOf(Expr) \in TableOperators \ {Op_IN}
     /\ ~(OperatorOf(Expr) = Op_IS /\ IsLiteralValue(ValueOf(Expr))))
    => /\ result.status = "ok"
       /\ result.sql = ColumnOf(Expr) \o <<" ">> \o TableSql(OperatorOf(Expr)) \o <<" ", "?">>
       /\ Len(result.params) = 1
       /\ convert_value(ValueOf(Expr)).status = "ok"
       /\ result.params[1] = convert_value(ValueOf(Expr)).value

\* C3: col.in.v1,...,vn returns "col IN (?,...,?)" with n placeholders and the
\* parameters v1..vn, in order, as uncoerced strings.
C3_InList ==
    (Done("parse_filter") /\ ThreeParts /\ OperatorOf(Expr) = Op_IN)
    => LET vs == Pieces(",", ValueOf(Expr))
           n == Len(vs)
       IN  /\ result.status = "ok"
           /\ result.sql = ColumnOf(Expr) \o <<" ", "I", "N", " ", "(">>
                           \o [i \in 1..(2 * n - 1) |-> IF i % 2 = 1 THEN "?" ELSE ","]
                           \o <<")">>
           /\ Len(result.params) = n
           /\ \A i \in 1..n : result.params[i] = [t |-> "str", s |-> vs[i]]

C3_Witness ==
    /\ Done("parse_filter")
    /\ input = <<"a", ".", "i", "n", ".", "1", ",", "n", "u", "l", "l", ",", "b">>
    /\ result.status = "ok"
    /\ result.sql = <<"a", " ", "I", "N", " ", "(", "?", ",", "?", ",", "?", ")">>
    /\ result.params = <<PyStr(<<"1">>), PyStr(NULL), PyStr(<<"b">>)>>

\* C4: col.is.V with V null, true or false in any letter case returns
\* "col IS <V uppercased>" and no parameter, and no other non-in expression
\* returns an empty parameter list.
C4_IsLiteral ==
    (Done("parse_filter") /\ ThreeParts)
    => /\ (OperatorOf(Expr) = Op_IS /\ IsLiteralValue(ValueOf(Expr)))
          => /\ result.status = "ok"
             /\ result.params = <<>>
             /\ \E lit \in {<<"N", "U", "L", "L">>, <<"T", "R", "U", "E">>,
                            <<"F", "A", "L", "S", "E">>} :
                   /\ Lower(lit) = Lower(ValueOf(Expr))
                   /\ result.sql = ColumnOf(Expr) \o <<" ", "I", "S", " ">> \o lit
       /\ (result.status = "ok" /\ result.params = <<>> /\ OperatorOf(Expr) # Op_IN)
          => (OperatorOf(Expr) = Op_IS /\ IsLiteralValue(ValueOf(Expr)))

C4_Witness ==
    /\ Done("parse_filter")
    /\ input = <<"a", ".", "i", "s", ".", "N", "u", "L", "L">>
    /\ result.status = "ok"
    /\ result.sql = <<"a", " ", "I", "S", " ", "N", "U", "L", "L">>
    /\ result.params = <<>>

\* C5: an expression with fewer than two dots fails with the malformed-filter error,
\* one whose operator token is not in the table (a double negation included) fails
\* with the unsupported-operator error, and the two errors differ.
C5_Errors ==
    Done("parse_filter")
    => /\ Count(".", input) < 2 => result = Raise("Invalid filter format")
       /\ (ThreeParts /\ OperatorOf(Expr) \notin TableOperators)
          => result = Raise("Invalid operator in filter")
       /\ Raise("Invalid filter format") # Raise("Invalid operator in filter")

C5_Witness ==
    /\ Done("parse_filter")
    /\ input = <<"a", ".", "n", "o", "t", ".", "n", "o", "t", ".", "e", "q", ".", "5">>
    /\ result = Raise("Invalid operator in filter")

RECURSIVE Concat(_)
Concat(seqs) == IF seqs = <<>> THEN <<>> ELSE Head(seqs) \o Concat(Tail(seqs))

RECURSIVE JoinAnd(_)
JoinAnd(frags) ==
    IF Len(frags) = 1 THEN frags[1]
    ELSE frags[1] \o <<" ", "A", "N", "D", " ">> \o JoinAnd(Tail(frags))

IsOk(r) == r.status = "ok"

\* C6: parse_raw_filters always returns; its result is the fragments of the clauses
\* that parse, in input order, joined with " AND ", with their parameters
\* concatenated in that order, and the empty clause with no parameter when the
\* input is empty or no clause parses.
C6_RawFilters ==
    Done("parse_raw_filters")
    => LET clauses == Pieces(",", input)
           kept == SelectSeq([i \in DOMAIN clauses |-> parse_filter(clauses[i])], IsOk)
       IN  /\ result.status = "ok"
           /\ IF input = <<>> \/ kept = <<>>
              THEN result.sql = <<>> /\ result.params = <<>>
              ELSE /\ result.sql = JoinAnd([i \in DOMAIN kept |-> kept[i].sql])
                   /\ result.params = Concat([i \in DOMAIN kept |-> kept[i].params])

C6_Witness ==
    /\ Done("parse_raw_filters")
    /\ input = <<"a", ".", "e", "q", ".", "1", ",", "b", "o", "g", "u", "s", ",",
                 "b", ".", "g", "t", ".", "2">>
    /\ result.sql = <<"a", " ", "=", " ", "?", " ", "A", "N", "D", " ", "b", " ", ">", " ", "?">>
    /\ result.params = <<PyInt(1), PyInt(2)>>

\* the column tokens of the clauses of the call that parsed
ParsedColumns ==
    IF fn = "parse_filter" THEN <<ColumnOf(Expr)>>
    ELSE LET clauses == Pieces(",", input)
             good == SelectSeq(clauses, LAMBDA c : parse_filter(c).status = "ok")
         IN  [i \in DOMAIN good |-> ColumnOf(Trimmed(good[i]))]

\* C7 as stated: whenever parse_filter or parse_raw_filters returns, the number of "?"
\* in the fragment equals the number of parameters, whatever the column token.
C7_PlaceholderCount ==
    ((Done("parse_filter") \/ Done("parse_raw_filters")) /\ result.status = "ok")
    => Count("?", result.sql) = Len(result.params)

\* C7 amended: the number of "?" in the fragment is the number of parameters plus the
\* number of "?" characters in the column tokens of the clauses that parsed; the two
\* counts are equal whenever no such column token contains "?".
C7_PlaceholderCountAmended ==
    ((Done("parse_filter") \/ Done("parse_raw_filters")) /\ result.status = "ok")
    => Count("?", result.sql) = Len(result.params) + Count("?", Concat(ParsedColumns))

C7_Witness ==
    /\ Done("parse_raw_filters")
    /\ result.status = "ok"
    /\ Len(result.params) = 3
    /\ Count("?", Concat(ParsedColumns)) = 0
    /\ Count("?", result.sql) = 3

\* C8: _convert_value never raises and applies, in this order: null, true/false
\* (any case), integer for a string of ASCII digits only, float for a string that
\* parses as one, else the string itself.
C8_Coercion ==
    Done("_convert_value")
    => /\ result.status = "ok"
       /\ result.value.t =
            IF Lower(input) = NULL THEN "NoneType"
            ELSE IF Lower(input) \in {TRUE_, FALSE_} THEN "bool"
            ELSE IF input # <<>> /\ \A i \in DOMAIN input : IsAsciiDigit(input[i]) THEN "int"
            ELSE IF FloatParses(input) THEN "float"
            ELSE "str"
       /\ result.value.t = "str" => result.value.s = input
       /\ result.value.t = "int" => result.value.i = DigitsValue(input)

(***************************************************************************)
(* The SQLite database behind sqlite3.Connection, for one table t.         *)
(* tableKind is the declaration of t:                                      *)
(*   "implicit"  CREATE TABLE t(x INTEGER NOT NULL, y INTEGER)             *)
(*   "declared"  CREATE TABLE t(rowid INTEGER, x INTEGER NOT NULL,         *)
(*               y INTEGER): the name rowid is the declared column         *)
(*   "without"   CREATE TABLE t(x INTEGER PRIMARY KEY NOT NULL, y INTEGER) *)
(*               WITHOUT ROWID                                             *)
(* A stored row is [rid, x, y] (rid 0 in a WITHOUT ROWID table).  The      *)
(* calls of this model store integers and NULL only, and never supply the  *)
(* declared rowid column, which is therefore NULL in every row.            *)
(***************************************************************************)

MaxRowid == 2      \* largest rowid the table reaches, and most rows it holds

TableKinds == {"implicit", "declared", "without"}

TableName == <<"t">>
ROWID == <<"r", "o", "w", "i", "d">>
ColX == <<"x">>
ColY == <<"y">>

PyList(items) == [t |-> "list", items |-> items]
PyDict(items) == [t |-> "dict", items |-> items]

\* the columns SELECT * returns, in declaration order
StarColumns ==
    IF tableKind = "declared" THEN <<ROWID, ColX, ColY>> ELSE <<ColX, ColY>>

\* the names a statement may use as a column
KnownColumns == Range(StarColumns) \cup (IF tableKind = "implicit" THEN {ROWID} ELSE {})

\* the value of a column in a stored row
ColumnValue(row, col) ==
    IF col = ColX THEN row.x
    ELSE IF col = ColY THEN row.y
    ELSE IF tableKind = "implicit" THEN PyInt(row.rid)
    ELSE PyNone

\* a parameter as it meets an INTEGER column: sqlite3 binds a bool as 0 or 1, and
\* the column's affinity converts text that is a decimal integer
Bound(v) ==
    IF v.t = "bool" THEN PyInt(IF v.b THEN 1 ELSE 0)
    ELSE IF v.t = "str" /\ IsDecimalDigits(v.s) THEN PyInt(DigitsValue(v.s))
    ELSE v

\* SQL comparison of a stored value with a bound value: NULL compares as unknown,
\* an integer sorts before any text
Compare(op, a, p) ==
    LET b == Bound(p)
    IN  IF a.t = "NoneType" \/ b.t = "NoneType" THEN FALSE
        ELSE IF a.t = "int" /\ b.t = "int"
        THEN CASE op = <<"=">> -> a.i = b.i
               [] op = <<"!", "=">> -> a.i # b.i
               [] op = <<">">> -> a.i > b.i
               [] op = <<">", "=">> -> a.i >= b.i
               [] op = <<"<">> -> a.i < b.i
               [] op = <<"<", "=">> -> a.i <= b.i
        ELSE op \in {<<"!", "=">>, <<"<">>, <<"<", "=">>}

ComparisonOps == {<<"=">>, <<"!", "=">>, <<">">>, <<">", "=">>, <<"<">>, <<"<", "=">>}

\* the tokens of a statement text: parentheses and commas stand alone, blanks separate
Lex(text) ==
    LET spaced == Join([i \in DOMAIN text |->
                          IF text[i] \in {"(", ")", ","} THEN <<" ", text[i], " ">>
                          ELSE <<text[i]>>], <<>>)
    IN  SelectSeq(Split(spaced, " ", -1), LAMBDA tok : tok # <<>>)

\* the items of "a , b , c" as tokens; <<>> when the tokens are no such list
CommaList(toks) ==
    IF Len(toks) % 2 = 1 /\ \A i \in DOMAIN toks : (i % 2 = 0) <=> (toks[i] = <<",">>)
    THEN [i \in 1..((Len(toks) + 1) \div 2) |-> toks[2 * i - 1]]
    ELSE <<>>

\* the items of "( a , b )" as tokens; <<>> when the tokens are no such list
ParenList(toks) ==
    IF Len(toks) >= 3 /\ toks[1] = <<"(">> /\ toks[Len(toks)] = <<")">>
    THEN CommaList(SubSeq(toks, 2, Len(toks) - 1))
    ELSE <<>>

\* one condition of a WHERE clause: the number of parameters it binds, or -1 when
\* SQLite rejects it.  Conditions: col <op> ?, col IS ?, col IS NULL|TRUE|FALSE,
\* col IN ( ? , ... )
CondArity(toks) ==
    IF Len(toks) < 3 \/ toks[1] \notin KnownColumns THEN -1
    ELSE IF Len(toks) = 3 /\ toks[2] \in ComparisonOps \cup {<<"I", "S">>} /\ toks[3] = <<"?">> THEN 1
    ELSE IF Len(toks) = 3 /\ toks[2] = <<"I", "S">> /\ toks[3] \in {<<"N", "U", "L", "L">>, <<"T", "R", "U", "E">>, <<"F", "A", "L", "S", "E">>}
    THEN 0
    ELSE IF toks[2] = <<"I", "N">> /\ Range(ParenList(SubSeq(toks, 3, Len(toks)))) = {<<"?">>}
    THEN Len(ParenList(SubSeq(toks, 3, Len(toks))))
    ELSE -1

\* whether a stored row satisfies one condition, whose parameters are ps
CondHolds(row, toks, ps) ==
    LET a == ColumnValue(row, toks[1])
    IN  IF toks[2] = <<"I", "N">> THEN \E i \in DOMAIN ps : Compare(<<"=">>, a, ps[i])
        ELSE IF toks[3] = <<"?">> /\ toks[2] = <<"I", "S">>
        THEN (a.t = "NoneType" /\ Bound(ps[1]).t = "NoneType") \/ Compare(<<"=">>, a, ps[1])
        ELSE IF toks[3] = <<"?">> THEN Compare(toks[2], a, ps[1])
        ELSE CASE toks[3] = <<"N", "U", "L", "L">> -> a.t = "NoneType"
               [] toks[3] = <<"T", "R", "U", "E">> -> a.t = "int" /\ a.i # 0
               [] toks[3] = <<"F", "A", "L", "S", "E">> -> a.t = "int" /\ a.i = 0

\* the conditions of a WHERE clause: its tokens split at AND
WhereConds(toks) == IF toks = <<>> THEN <<>> ELSE Split(toks, <<"A", "N", "D">>, -1)

WhereValid(toks) == \A i \in DOMAIN WhereConds(toks) : CondArity(WhereConds(toks)[i]) >= 0

RECURSIVE WhereHolds(_, _, _)
\* whether a row satisfies every condition; the parameters are consumed left to right
WhereHolds(row, conds, ps) ==
    IF conds = <<>> THEN TRUE
    ELSE LET n == CondArity(Head(conds))
         IN  /\ CondHolds(row, Head(conds), SubSeq(ps, 1, n))
             /\ WhereHolds(row, Tail(conds), SubSeq(ps, n + 1, Len(ps)))

\* the index of the first token of toks that is in stops, or Len(toks) + 1
FirstOf(toks, stops) ==
    IF \E i \in DOMAIN toks : toks[i] \in stops
    THEN Min({i \in DOMAIN toks : toks[i] \in stops})
    ELSE Len(toks) + 1

SyntaxError == [kind |-> "error"]

\* [ORDER BY col [ASC|DESC]] [LIMIT n [OFFSET m]] after a SELECT's WHERE clause
SelectTail(toks) ==
    LET hasOrder == Len(toks) >= 3 /\ toks[1] = <<"O", "R", "D", "E", "R">> /\ toks[2] = <<"B", "Y">>
        hasDir == hasOrder /\ Len(toks) >= 4 /\ toks[4] \in {<<"A", "S", "C">>, <<"D", "E", "S", "C">>}
        n == IF hasDir THEN 4 ELSE IF hasOrder THEN 3 ELSE 0
        rest == SubSeq(toks, n + 1, Len(toks))
        okLimit == /\ Len(rest) \in {2, 4} /\ rest[1] = <<"L", "I", "M", "I", "T">> /\ IsDecimalDigits(rest[2])
                   /\ (Len(rest) = 4 => rest[3] = <<"O", "F", "F", "S", "E", "T">> /\ IsDecimalDigits(rest[4]))
    IN  IF (hasOrder /\ toks[3] \notin KnownColumns) \/ (rest # <<>> /\ ~okLimit)
        THEN SyntaxError
        ELSE [kind |-> "tail",
              order |-> IF hasOrder THEN toks[3] ELSE <<>>,
              desc |-> hasDir /\ toks[4] = <<"D", "E", "S", "C">>,
              limit |-> IF rest # <<>> THEN DigitsValue(rest[2]) ELSE -1,
              offset |-> IF Len(rest) = 4 THEN DigitsValue(rest[4]) ELSE 0]

\* "c1 = ? , c2 = ?" as tokens: the columns assigned, or <<>> when malformed
SetColumns(toks) ==
    IF /\ Len(toks) % 4 = 3
       /\ \A g \in 1..((Len(toks) + 1) \div 4) :
            /\ toks[4 * g - 2] = <<"=">>
            /\ toks[4 * g - 1] = <<"?">>
            /\ 4 * g <= Len(toks) => toks[4 * g] = <<",">>
    THEN [g \in 1..((Len(toks) + 1) \div 4) |-> toks[4 * g - 3]]
    ELSE <<>>

\* SELECT * FROM table [WHERE conds] tail, where R is what follows the table name
SelectStatement(table, where, hasWhere, tail) ==
    IF (hasWhere /\ where = <<>>) \/ ~WhereValid(where) \/ tail.kind = "error"
    THEN SyntaxError
    ELSE [kind |-> "select", table |-> table, where |-> WhereConds(where), tail |-> tail]

SelectAfterTable(table, R, stop) ==
    IF R # <<>> /\ R[1] = <<"W", "H", "E", "R", "E">>
    THEN SelectStatement(table, SubSeq(R, 2, stop - 1), TRUE, SelectTail(SubSeq(R, stop, Len(R))))
    ELSE SelectStatement(table, <<>>, FALSE, SelectTail(R))

\* DELETE FROM table [WHERE conds]
DeleteStatement(T, where) ==
    IF (Len(T) >= 4 /\ (T[4] # <<"W", "H", "E", "R", "E">> \/ where = <<>>)) \/ ~WhereValid(where)
    THEN SyntaxError
    ELSE [kind |-> "delete", table |-> T[3], where |-> WhereConds(where)]

\* UPDATE table SET assignments [WHERE conds], where R is what follows SET
UpdateStatement(table, cols, hasWhere, where) ==
    IF \/ cols = <<>> \/ Range(cols) \ KnownColumns # {}
       \/ (hasWhere /\ where = <<>>) \/ ~WhereValid(where)
    THEN SyntaxError
    ELSE [kind |-> "update", table |-> table, cols |-> cols, where |-> WhereConds(where)]

UpdateAfterSet(table, R, stop) ==
    UpdateStatement(table, SetColumns(SubSeq(R, 1, stop - 1)), stop <= Len(R),
                    SubSeq(R, stop + 1, Len(R)))

\* INSERT INTO table ( columns ) VALUES ( ?, ... )
InsertStatement(table, cols, vals) ==
    IF \/ cols = <<>> \/ Len(cols) # Len(vals)
       \/ Range(cols) \ KnownColumns # {} \/ Range(vals) # {<<"?">>}
    THEN SyntaxError
    ELSE [kind |-> "insert", table |-> table, cols |-> cols]

InsertAtValues(T, v) ==
    InsertStatement(T[3], ParenList(SubSeq(T, 4, v - 1)), ParenList(SubSeq(T, v + 1, Len(T))))

\* the statement of a token sequence: the four statement shapes the client
\* builds; anything else is a syntax error
Statement(T) ==
    IF Len(T) >= 4 /\ T[1] = <<"S", "E", "L", "E", "C", "T">> /\ T[2] = <<"*">> /\ T[3] = <<"F", "R", "O", "M">>
    THEN SelectAfterTable(T[4], SubSeq(T, 5, Len(T)),
                          FirstOf(SubSeq(T, 5, Len(T)), {<<"O", "R", "D", "E", "R">>, <<"L", "I", "M", "I", "T">>, <<"O", "F", "F", "S", "E", "T">>}))
    ELSE IF Len(T) >= 3 /\ T[1] = <<"D", "E", "L", "E", "T", "E">> /\ T[2] = <<"F", "R", "O", "M">>
    THEN DeleteStatement(T, SubSeq(T, 5, Len(T)))
    ELSE IF Len(T) >= 3 /\ T[1] = <<"U", "P", "D", "A", "T", "E">> /\ T[3] = <<"S", "E", "T">>
    THEN UpdateAfterSet(T[2], SubSeq(T, 4, Len(T)), FirstOf(SubSeq(T, 4, Len(T)), {<<"W", "H", "E", "R", "E">>}))
    ELSE IF Len(T) >= 4 /\ T[1] = <<"I", "N", "S", "E", "R", "T">> /\ T[2] = <<"I", "N", "T", "O">> /\ <<"V", "A", "L", "U", "E", "S">> \in Range(T)
    THEN InsertAtValues(T, FirstOf(T, {<<"V", "A", "L", "U", "E", "S">>}))
    ELSE SyntaxError

\* the statement SQLite compiles from a query text
ParseSql(query) == Statement(Lex(query))

\* rowid order (primary-key order in a WITHOUT ROWID table): the order of a scan
RowKey(row) == IF tableKind = "without" THEN row.x.i ELSE row.rid

RECURSIVE InsertSorted(_, _)
InsertSorted(rows, row) ==
    IF rows = <<>> THEN <<row>>
    ELSE IF RowKey(row) < RowKey(Head(rows)) THEN <<row>> \o rows
    ELSE <<Head(rows)>> \o InsertSorted(Tail(rows), row)

RECURSIVE SortRows(_)
SortRows(rows) == IF rows = <<>> THEN <<>> ELSE InsertSorted(SortRows(Tail(rows)), Head(rows))

\* ORDER BY: NULL first, then integers ascending; ties keep scan order
OrderKey(row, col) ==
    LET v == ColumnValue(row, col) IN IF v.t = "NoneType" THEN -1 ELSE v.i

RECURSIVE OrderBy(_, _, _)
OrderBy(rows, col, desc) ==
    IF rows = <<>> THEN <<>>
    ELSE LET before(i, j) ==
                 \/ IF desc THEN OrderKey(rows[i], col) > OrderKey(rows[j], col)
                            ELSE OrderKey(rows[i], col) < OrderKey(rows[j], col)
                 \/ OrderKey(rows[i], col) = OrderKey(rows[j], col) /\ i <= j
             first == CHOOSE i \in DOMAIN rows : \A j \in DOMAIN rows : before(i, j)
         IN  <<rows[first]>>
             \o OrderBy(SubSeq(rows, 1, first - 1) \o SubSeq(rows, first + 1, Len(rows)),
                        col, desc)

\* the row _dict_factory builds for SELECT *
AsDict(row) ==
    PyDict([i \in DOMAIN StarColumns |-> <<StarColumns[i], ColumnValue(row, StarColumns[i])>>])

NextRowid(rows) == IF rows = <<>> THEN 1 ELSE Max({rows[i].rid : i \in DOMAIN rows}) + 1

\* the value an INSERT or UPDATE binds for column col (other when col is not listed)
Assigned(cols, params, col, other) ==
    IF col \in Range(cols)
    THEN Bound(params[Max({i \in DOMAIN cols : cols[i] = col})])
    ELSE other

\* NOT NULL on x; PRIMARY KEY on x in the WITHOUT ROWID table
ConstraintsHold(rows) ==
    /\ \A i \in DOMAIN rows : rows[i].x.t # "NoneType"
    /\ tableKind = "without" => \A i, j \in DOMAIN rows : rows[i].x = rows[j].x => i = j

(***************************************************************************)
(* sqlite3.Connection and Cursor.  A connection c is                       *)
(*   db      the committed rows of t                                       *)
(*   work    the rows as this connection sees them: db with the changes    *)
(*           of its open transaction                                       *)
(*   intx    whether a transaction is open (sqlite3 opens one before a     *)
(*           data-changing statement)                                      *)
(*   last_insert_rowid   sqlite3_last_insert_rowid(), which                *)
(*           cursor.lastrowid reads after every execute                    *)
(*   trace   the statements executed during the current client call        *)
(***************************************************************************)

Executed(c, query, params, status, rows, rowcount) ==
    [status |-> status, rows |-> rows, rowcount |-> rowcount,
     conn |-> [c EXCEPT !.trace = Append(@, [query |-> query, params |-> params,
                                             status |-> status, rows |-> rows,
                                             rowcount |-> rowcount])]]

\* LIMIT and OFFSET applied to the sorted rows
Page(sorted, tail) ==
    SubSeq(sorted, tail.offset + 1,
           IF tail.limit < 0 THEN Len(sorted)
           ELSE Min({Len(sorted), tail.offset + tail.limit}))

Dicts(page) == [i \in DOMAIN page |-> AsDict(page[i])]

\* the rows a SELECT fetches
SelectRows(c, st, params) ==
    Dicts(Page(IF st.tail.order = <<>>
               THEN SelectSeq(c.work, LAMBDA r : WhereHolds(r, st.where, params))
               ELSE OrderBy(SelectSeq(c.work, LAMBDA r : WhereHolds(r, st.where, params)),
                            st.tail.order, st.tail.desc),
               st.tail))

\* the row an INSERT adds
NewRow(c, st, params) ==
    [rid |-> IF tableKind = "without" THEN 0 ELSE NextRowid(c.work),
     x |-> Assigned(st.cols, params, ColX, PyNone),
     y |-> Assigned(st.cols, params, ColY, PyNone)]

\* the rows an UPDATE leaves, before they are put back in scan order
UpdateRows(c, st, params) ==
    [i \in DOMAIN c.work |->
        IF WhereHolds(c.work[i], st.where, SubSeq(params, Len(st.cols) + 1, Len(params)))
        THEN [rid |-> c.work[i].rid,
              x |-> Assigned(st.cols, params, ColX, c.work[i].x),
              y |-> Assigned(st.cols, params, ColY, c.work[i].y)]
        ELSE c.work[i]]

\* the number of rows a WHERE clause selects
CountRows(c, where, ps) == Cardinality({i \in DOMAIN c.work : WhereHolds(c.work[i], where, ps)})

ExecuteInsert(c, query, params, row) ==
    IF row.x.t = "NoneType" \/ ~ConstraintsHold(InsertSorted(c.work, row))
    THEN Executed(c, query, params, "IntegrityError", <<>>, -1)
    ELSE Executed([c EXCEPT !.work = InsertSorted(c.work, row), !.intx = TRUE,
                            !.last_insert_rowid = IF tableKind = "without" THEN @ ELSE row.rid],
                  query, params, "ok", <<>>, 1)

ExecuteUpdate(c, query, params, rows, count) ==
    IF ~ConstraintsHold(rows) THEN Executed(c, query, params, "IntegrityError", <<>>, -1)
    ELSE Executed([c EXCEPT !.work = SortRows(rows), !.intx = TRUE],
                  query, params, "ok", <<>>, count)

\* a compiled statement st, with that many placeholders, run with its parameters
ExecuteStatement(c, query, params, st, placeholders) ==
    IF st.kind = "error" \/ st.table # TableName
    THEN Executed(c, query, params, "OperationalError", <<>>, -1)
    ELSE IF placeholders # Len(params)
    THEN Executed(c, query, params, "ProgrammingError", <<>>, -1)
    ELSE IF st.kind = "select"
    THEN Executed(c, query, params, "ok", SelectRows(c, st, params), -1)
    ELSE IF st.kind = "insert"
    THEN ExecuteInsert(c, query, params, NewRow(c, st, params))
    ELSE IF st.kind = "update"
    THEN ExecuteUpdate(c, query, params, UpdateRows(c, st, params),
                       CountRows(c, st.where, SubSeq(params, Len(st.cols) + 1, Len(params))))
    ELSE Executed([c EXCEPT !.work = SelectSeq(c.work,
                                               LAMBDA r : ~WhereHolds(r, st.where, params)),
                            !.intx = TRUE],
                  query, params, "ok", <<>>, CountRows(c, st.where, params))

\* the tokens T of the query compiled and run
ExecuteTokens(c, query, params, T) ==
    ExecuteStatement(c, query, params, Statement(T),
                     Len(SelectSeq(T, LAMBDA tok : tok = <<"?">>)))

\* cursor.execute(query, params)
Execute(c, query, params) == ExecuteTokens(c, query, params, Lex(query))

\* self.conn.commit()
Commit(c) == [c EXCEPT !.db = c.work, !.intx = FALSE]

\* self.conn.rollback()
Rollback(c) == [c EXCEPT !.work = c.db, !.intx = FALSE]

(***************************************************************************)
(* client.py: SQLiteClient.  A method takes the connection and gives       *)
(* [status, value, conn]: status "ok" with the value returned, or the      *)
(* name of the exception raised.                                           *)
(***************************************************************************)

Return(c, value) == [status |-> "ok", value |-> value, conn |-> c]
Raised(c, exception) == [status |-> exception, value |-> PyNone, conn |-> c]

\* str(n) for n >= 0, as an f-string formats limit and offset
RECURSIVE Str(_)
Str(n) == IF n < 10 THEN <<AsciiDigits[n + 1]>> ELSE Str(n \div 10) \o <<AsciiDigits[(n % 10) + 1]>>

\* a dict is the sequence of its <<key, value>> items in insertion order
Keys(dict) == [i \in DOMAIN dict |-> dict[i][1]]
Values(dict) == [i \in DOMAIN dict |-> dict[i][2]]

\* get_cursor around a block whose outcome is r: commit when the block did not
\* raise, rollback and re-raise when it did
get_cursor(r) ==
    IF r.status = "ok" THEN [r EXCEPT !.conn = Commit(r.conn)]
    ELSE [r EXCEPT !.conn = Rollback(r.conn)]

\* " WHERE c1 AND c2 ..." for the clauses collected, with their parameters
Where(where_clauses, params) ==
    [text |-> IF where_clauses # <<>> THEN <<" ", "W", "H", "E", "R", "E", " ">> \o Join(where_clauses, AND) ELSE <<>>,
     params |-> params]

\* mutant: the raw-filter clause and its parameters put first
WithRaw_first(filters, raw_filters, raw) ==
    IF raw_filters # <<>> /\ raw.sql # <<>>
    THEN Where(<<raw.sql>> \o [i \in DOMAIN filters |-> filters[i][1] \o <<" ", "=", " ", "?">>],
               raw.params \o Values(filters))
    ELSE Where([i \in DOMAIN filters |-> filters[i][1] \o <<" ", "=", " ", "?">>], Values(filters))

\* the raw-filter clause raw added to the equality clauses, when it is not empty
WithRaw(filters, raw_filters, raw) ==
    IF raw_filters # <<>> /\ raw.sql # <<>>
    THEN Where(Append([i \in DOMAIN filters |-> filters[i][1] \o <<" ", "=", " ", "?">>], raw.sql),
               Values(filters) \o raw.params)
    ELSE Where([i \in DOMAIN filters |-> filters[i][1] \o <<" ", "=", " ", "?">>], Values(filters))

\* the raw filters of the calls of update_records and delete_records, and of
\* query_table
RawFilters == {<<"x", ".", "i", "n", ".", "2">>, <<"y", ".", "i", "s", ".", "n", "u", "l", "l">>, <<"b", "o", "g", "u", "s">>, <<"x", ".", "i", "l", "i", "k", "e", ".", "1">>}
QueryRawFilters == {<<"x", ".", "g", "t", ".", "1">>}

\* the WHERE clause and its parameters as query_table, update_records and
\* delete_records each build them: "column = ?" per item of filters, then the
\* raw-filter clause
WhereClause(filters, raw_filters) ==
    WithRaw(filters, raw_filters, parse_raw_filters(raw_filters))

None == <<>>       \* an argument left at its default None (order, raw_filters)
NoLimit == -1      \* limit or offset left at None

\* col, direction = order.split(".")
OrderParts(parts) ==
    IF Len(parts) # 2 THEN [status |-> "ValueError", text |-> <<>>]
    ELSE [status |-> "ok",
          text |-> <<" ", "O", "R", "D", "E", "R", " ", "B", "Y", " ">> \o parts[1] \o <<" ">>
                   \o (IF Lower(parts[2]) = <<"d", "e", "s", "c">> THEN <<"D", "E", "S", "C">> ELSE <<"A", "S", "C">>)]

\* the ORDER BY part of query_table
OrderClause(order) ==
    IF order = None THEN [status |-> "ok", text |-> <<>>]
    ELSE IF "." \in Range(order) THEN OrderParts(Split(order, ".", -1))
    ELSE [status |-> "ok", text |-> <<" ", "O", "R", "D", "E", "R", " ", "B", "Y", " ">> \o order]

\* the statement text query_table builds
SelectQuery(table, select, where, order, limit, offset) ==
    <<"S", "E", "L", "E", "C", "T", " ">> \o select \o <<" ", "F", "R", "O", "M", " ">> \o table \o where \o order
    \o (IF limit # NoLimit THEN <<" ", "L", "I", "M", "I", "T", " ">> \o Str(limit) ELSE <<>>)
    \o (IF offset # NoLimit THEN <<" ", "O", "F", "F", "S", "E", "T", " ">> \o Str(offset) ELSE <<>>)

\* return cursor.fetchall(), or the exception of the cursor block r
Fetched(r) == IF r.status = "ok" THEN Return(r.conn, PyList(r.rows)) ELSE Raised(r.conn, r.status)

\* query_table once its WHERE and ORDER BY parts are built
QueryWith(c, table, select, where, order, limit, offset) ==
    IF order.status # "ok" THEN Raised(c, order.status)
    ELSE Fetched(get_cursor(Execute(c, SelectQuery(table, select, where.text, order.text,
                                                   limit, offset),
                                    where.params)))

\* SQLiteClient.query_table
query_table(c, table, select, filters, order, limit, offset, raw_filters) ==
    QueryWith(c, table, select, WhereClause(filters, raw_filters), OrderClause(order),
              limit, offset)

\* the statement text insert_record builds
InsertQuery(table, data) ==
    <<"I", "N", "S", "E", "R", "T", " ", "I", "N", "T", "O", " ">> \o table \o <<" ", "(">> \o Join(Keys(data), <<",", " ">>) \o <<")", " ", "V", "A", "L", "U", "E", "S", " ", "(">>
    \o Join([i \in DOMAIN data |-> <<"?">>], <<",", " ">>) \o <<")">>

\* [0] of what the re-fetch q returned
First(q) ==
    IF q.status # "ok" THEN q
    ELSE IF q.value.items = <<>> THEN Raised(q.conn, "IndexError")
    ELSE Return(q.conn, q.value.items[1])

\* mutant: the re-fetch takes the first row of the table, whatever its rowid
Refetch_unfiltered(c, table) ==
    IF c.last_insert_rowid = 0 THEN Return(c, PyDict(<<>>))
    ELSE First(query_table(c, table, <<"*">>, <<>>, None, NoLimit, NoLimit, None))

\* insert_record after its INSERT: lastrowid, and when it is not 0 the re-fetch by
\* query_table, which has its own get_cursor on the same connection
Refetch(c, table) ==
    IF c.last_insert_rowid = 0 THEN Return(c, PyDict(<<>>))
    ELSE First(query_table(c, table, <<"*">>, <<<<ROWID, PyInt(c.last_insert_rowid)>>>>,
                           None, NoLimit, NoLimit, None))

\* the body of insert_record's cursor block, ins being what its INSERT gave
Inserted(ins, table) ==
    IF ins.status # "ok" THEN Raised(ins.conn, ins.status) ELSE Refetch(ins.conn, table)

\* SQLiteClient.insert_record
insert_record(c, table, data) ==
    get_cursor(Inserted(Execute(c, InsertQuery(table, data), Values(data)), table))

\* the statement text update_records builds
UpdateQuery(table, data, where) ==
    <<"U", "P", "D", "A", "T", "E", " ">> \o table \o <<" ", "S", "E", "T", " ">>
    \o Join([i \in DOMAIN data |-> data[i][1] \o <<" ", "=", " ", "?">>], <<",", " ">>) \o where

\* return updated_count, or the exception of the cursor block r
Counted(r) ==
    IF r.status = "ok" THEN Return(r.conn, PyInt(r.rowcount)) ELSE Raised(r.conn, r.status)

\* mutant: the WHERE parameters bound before the SET values
UpdateWrite_where_first(c, table, data, where) ==
    Counted(get_cursor(Execute(c, UpdateQuery(table, data, where.text),
                               where.params \o Values(data))))

\* update_records after its pre-check: the UPDATE in its own get_cursor
UpdateWrite(c, table, data, where) ==
    Counted(get_cursor(Execute(c, UpdateQuery(table, data, where.text),
                               Values(data) \o where.params)))

\* update_records after the pre-check gave records_before
UpdateChecked(records_before, table, data, filters, raw_filters) ==
    IF records_before.status # "ok" THEN records_before
    ELSE IF records_before.value.items = <<>> THEN Return(records_before.conn, PyList(<<>>))
    ELSE UpdateWrite(records_before.conn, table, data, WhereClause(filters, raw_filters))

\* mutant: the UPDATE without the pre-check
update_records_unchecked(c, table, data, filters, raw_filters) ==
    UpdateWrite(c, table, data, WhereClause(filters, raw_filters))

\* SQLiteClient.update_records
update_records(c, table, data, filters, raw_filters) ==
    UpdateChecked(query_table(c, table, <<"*">>, filters, None, NoLimit, NoLimit, raw_filters),
                  table, data, filters, raw_filters)

\* mutant: the DELETE without its WHERE clause
DeleteQuery_unrestricted(table, where) == <<"D", "E", "L", "E", "T", "E", " ", "F", "R", "O", "M", " ">> \o table

\* the statement text delete_records builds
DeleteQuery(table, where) == <<"D", "E", "L", "E", "T", "E", " ", "F", "R", "O", "M", " ">> \o table \o where

\* return records_to_delete, or the exception of the cursor block r
Deleted(r, records_to_delete) ==
    IF r.status = "ok" THEN Return(r.conn, records_to_delete) ELSE Raised(r.conn, r.status)

\* delete_records after its pre-check: the DELETE in its own get_cursor
DeleteWrite(c, table, where, records_to_delete) ==
    Deleted(get_cursor(Execute(c, DeleteQuery(table, where.text), where.params)),
            records_to_delete)

\* delete_records after the pre-check gave records_to_delete
DeleteChecked(records_to_delete, table, filters, raw_filters) ==
    IF records_to_delete.status # "ok" THEN records_to_delete
    ELSE IF records_to_delete.value.items = <<>>
    THEN Return(records_to_delete.conn, PyList(<<>>))
    ELSE DeleteWrite(records_to_delete.conn, table, WhereClause(filters, raw_filters),
                     records_to_delete.value)

\* SQLiteClient.delete_records
delete_records(c, table, filters, raw_filters) ==
    DeleteChecked(query_table(c, table, <<"*">>, filters, None, NoLimit, NoLimit, raw_filters),
                  table, filters, raw_filters)

\* sub in s
Contains(s, sub) ==
    \E i \in 0..(Len(s) - Len(sub)) : SubSeq(s, i + 1, i + Len(sub)) = sub

DestructiveKeywords == {<<"d", "r", "o", "p">>, <<"t", "r", "u", "n", "c", "a", "t", "e">>, <<"d", "e", "l", "e", "t", "e">>, <<"u", "p", "d", "a", "t", "e">>, <<"a", "l", "t", "e", "r">>}

\* mutant: the check compares the text as written
execute_sql_case_sensitive(c, query, params, unsafe) ==
    IF ~unsafe /\ \E keyword \in DestructiveKeywords : Contains(Strip(query), keyword)
    THEN Raised(c, "ValueError")
    ELSE Fetched(get_cursor(Execute(c, query, params)))

\* SQLiteClient.execute_sql
execute_sql(c, query, params, unsafe) ==
    IF ~unsafe /\ \E keyword \in DestructiveKeywords : Contains(Strip(Lower(query)), keyword)
    THEN Raised(c, "ValueError")
    ELSE Fetched(get_cursor(Execute(c, query, params)))

(***************************************************************************)
(* Calls of the client: one action per method, its arguments drawn from    *)
(* bounded sets.  Every call runs to completion on the one connection.     *)
(***************************************************************************)

One == PyInt(1)
Two == PyInt(2)

Dict1(k, v) == <<<<k, v>>>>
Dict2(k1, v1, k2, v2) == <<<<k1, v1>>, <<k2, v2>>>>

\* z is not a column of t; u is not a table
ColZ == <<"z">>
OtherTable == <<"u">>

InsertCalls ==
    [table : {TableName},
     data : {Dict1(ColX, One), Dict1(ColX, Two), Dict2(ColX, One, ColY, One),
             Dict2(ColX, Two, ColY, PyNone), Dict1(ColY, One), <<>>}]
    \cup [table : {OtherTable}, data : {Dict1(ColX, One)}]

FilterMaps == {<<>>, Dict1(ColX, One), Dict1(ColZ, One)}


UpdateCalls ==
    [table : {TableName}, data : {Dict1(ColY, One), Dict2(ColX, One, ColY, PyNone)},
     filters : FilterMaps, raw_filters : {None}]
    \cup [table : {TableName}, data : {Dict1(ColX, Two), Dict1(ColX, PyNone), <<>>},
          filters : {Dict1(ColX, One)}, raw_filters : {None}]
    \cup [table : {TableName}, data : {Dict1(ColX, Two)}, filters : {<<>>},
          raw_filters : {None}]
    \cup [table : {TableName}, data : {Dict1(ColY, One)}, filters : {<<>>},
          raw_filters : RawFilters]
    \cup [table : {TableName}, data : {Dict1(ColY, One)}, filters : {Dict1(ColX, One)},
          raw_filters : {<<"y", ".", "i", "s", ".", "n", "u", "l", "l">>}]

DeleteCalls ==
    [table : {TableName}, filters : FilterMaps, raw_filters : {None}]
    \cup [table : {TableName}, filters : {<<>>}, raw_filters : RawFilters]

QueryCalls ==
    [table : {TableName}, filters : {<<>>}, raw_filters : {None},
     order : {None, <<"x">>, <<"x", ".", "d", "e", "s", "c">>, <<"y", ".", "D", "E", "S", "C">>, <<"t", ".", "x", ".", "d", "e", "s", "c">>, <<"x", ".", "a", "s", "c">>, <<"x", ".", "u", "p">>},
     limit : {NoLimit}, offset : {NoLimit}]
    \cup [table : {TableName}, filters : {Dict1(ColY, One)}, raw_filters : {None},
          order : {None}, limit : {NoLimit}, offset : {NoLimit}]
    \cup [table : {TableName}, filters : {Dict1(ColY, One)}, raw_filters : {None},
          order : {None}, limit : {1}, offset : {1}]
    \cup [table : {TableName}, filters : {<<>>, Dict2(ColY, One, ColX, Two)},
          raw_filters : QueryRawFilters,
          order : {None}, limit : {NoLimit}, offset : {NoLimit}]

SqlCalls ==
    [query : {<<"S", "E", "L", "E", "C", "T", " ", "*", " ", "F", "R", "O", "M", " ", "t">>, <<"D", "E", "L", "E", "T", "E", " ", "F", "R", "O", "M", " ", "t">>}, params : {<<>>}, unsafe : BOOLEAN]
    \cup [query : {<<"I", "N", "S", "E", "R", "T", " ", "I", "N", "T", "O", " ", "t", " ", "(", "x", ")", " ", "V", "A", "L", "U", "E", "S", " ", "(", "?", ")">>}, params : {<<One>>, <<>>},
          unsafe : {FALSE}]
    \cup [query : {<<"S", "E", "L", "E", "C">>}, params : {<<>>}, unsafe : {FALSE}]
    \cup [query : {<<"S", "E", "L", "E", "C", "T", " ", "*", " ", "F", "R", "O", "M", " ", "u", "p", "d", "a", "t", "e", "s">>}, params : {<<>>}, unsafe : BOOLEAN]
    \cup [query : {<<"U", "P", "D", "A", "T", "E", " ", "t", " ", "S", "E", "T", " ", "y", " ", "=", " ", "?", " ", "W", "H", "E", "R", "E", " ", "x", " ", "=", " ", "?">>}, params : {<<One, Two>>},
          unsafe : {TRUE}]

\* the connection at the start of a call
Fresh(c) == [c EXCEPT !.trace = <<>>]

\* whether the table has room for one more row within MaxRowid
Room ==
    /\ Len(conn.db) < MaxRowid
    /\ tableKind # "without" => NextRowid(conn.db) <= MaxRowid

Finish(op, args, r) ==
    /\ conn' = r.conn
    /\ call' = [op |-> op, args |-> args, before |-> conn.db, status |-> r.status,
                value |-> r.value]
    /\ UNCHANGED <<tableKind, parserVars, modVars, singletonVars>>

QueryTable ==
    \E a \in QueryCalls :
        Finish("query_table", a,
               query_table(Fresh(conn), a.table, <<"*">>, a.filters, a.order, a.limit, a.offset,
                           a.raw_filters))

InsertRecord ==
    /\ Room
    /\ \E a \in InsertCalls :
        Finish("insert_record", a, insert_record(Fresh(conn), a.table, a.data))

UpdateRecords ==
    \E a \in UpdateCalls :
        Finish("update_records", a,
               update_records(Fresh(conn), a.table, a.data, a.filters, a.raw_filters))

DeleteRecords ==
    \E a \in DeleteCalls :
        Finish("delete_records", a,
               delete_records(Fresh(conn), a.table, a.filters, a.raw_filters))

ExecuteSql ==
    \E a \in SqlCalls :
        /\ ParseSql(a.query).kind = "insert" => Room
        /\ Finish("execute_sql", a, execute_sql(Fresh(conn), a.query, a.params, a.unsafe))

\* the connection SQLiteClient.__init__ leaves: t is empty, and the schema script
\* may have inserted into other tables (last_insert_rowid)
Init ==
    /\ tableKind \in TableKinds
    /\ \E last \in {0, 1} : conn = NewConnection(last)
    /\ call = NoCall
    /\ fn = "none" /\ input = <<>> /\ pc = "idle" /\ result = NoResult
    /\ lock = NewLock /\ task = [t \in Tasks |-> IdleTask]
    /\ NoGetInstance

\* the client used through its four table methods
Next == QueryTable \/ InsertRecord \/ UpdateRecords \/ DeleteRecords

vars == <<parserVars, clientVars, modVars, singletonVars>>

Spec == Init /\ [][Next]_vars

\* the client used through execute_sql, on rows that insert_record stored
SqlNext == InsertRecord \/ ExecuteSql

SpecSql == Init /\ [][SqlNext]_vars

(***************************************************************************)
(* Claims about the client (C9, C10), checked under Spec.                  *)
(***************************************************************************)

Mutations == {"insert_record", "update_records", "delete_records", "execute_sql"}

\* the statements of the last call that are UPDATEs, by their position in the trace
UpdatesExecuted == {i \in DOMAIN conn.trace : StartsWith(conn.trace[i].query, <<"U", "P", "D", "A", "T", "E">>)}

\* the rows of the table before the last call that an equality-filter map selects
\* (integer values on the columns x and y), read off the stored rows
Matching(filters) ==
    {i \in DOMAIN call.before :
        \A f \in DOMAIN filters : ColumnValue(call.before[i], filters[f][1]) = filters[f][2]}

PlainFilters(filters) == \A f \in DOMAIN filters : filters[f][1] \in {ColX, ColY}

\* C9: every mutation is all-or-nothing: after a mutating call nothing is left
\* uncommitted, and when the call raised, the committed table is what it was
\* before the call.
C9_AllOrNothing ==
    call.op \in Mutations =>
        /\ ~conn.intx /\ conn.work = conn.db
        /\ call.status # "ok" => conn.db = call.before

\* C10: update_records first reads the rows its filters select.  When that read
\* finds none, the call returns the empty list, no UPDATE is executed and the table
\* is unchanged; when it finds some, exactly one UPDATE is executed and a call that
\* returns normally returns that statement's affected-row count.  For an
\* equality-filter map the rows found are the stored rows with those values, and
\* the count returned is their number.
C10_UpdateRecords ==
    call.op = "update_records" =>
        /\ conn.trace # <<>> /\ StartsWith(conn.trace[1].query, <<"S", "E", "L", "E", "C", "T">>)
        /\ conn.trace[1].status # "ok" => UpdatesExecuted = {} /\ call.status # "ok"
        /\ conn.trace[1].status = "ok" /\ conn.trace[1].rows = <<>> =>
               /\ call.status = "ok" /\ call.value = PyList(<<>>)
               /\ UpdatesExecuted = {}
               /\ conn.db = call.before
        /\ conn.trace[1].status = "ok" /\ conn.trace[1].rows # <<>> =>
               /\ UpdatesExecuted = {2} /\ Len(conn.trace) = 2
               /\ call.status = conn.trace[2].status
               /\ call.status = "ok" => call.value = PyInt(conn.trace[2].rowcount)
        /\ conn.trace[1].status = "ok" /\ call.args.raw_filters = None
           /\ PlainFilters(call.args.filters) =>
               /\ Len(conn.trace[1].rows) = Cardinality(Matching(call.args.filters))
               /\ call.status = "ok" /\ Matching(call.args.filters) # {} =>
                      call.value = PyInt(Cardinality(Matching(call.args.filters)))

\* an update through a raw filter that changed both rows of the table
C10_Witness ==
    /\ call.op = "update_records" /\ call.args.raw_filters # None
    /\ call.status = "ok" /\ call.value = PyInt(2)
    /\ conn.db # call.before

(***************************************************************************)
(* Claims about the client (C11 - ), checked under Spec.                   *)
(***************************************************************************)

\* the statements of the last call that are DELETEs, by their position in the trace
DeletesExecuted == {i \in DOMAIN conn.trace : StartsWith(conn.trace[i].query, <<"D", "E", "L", "E", "T", "E">>)}

\* the stored rows of the table before the last call that are no longer in it
Removed == SelectSeq(call.before, LAMBDA r : r \notin Range(conn.db))

\* what the raw filters x.in.2 and y.is.null select, read off a stored row
RawSelects(raw_filters, row) ==
    IF raw_filters = <<"x", ".", "i", "n", ".", "2">> THEN row.x = Two ELSE row.y = PyNone

\* C11: when its pre-check succeeds, delete_records returns the rows the pre-check
\* found, in full; exactly those rows are gone from the table and the others are
\* as they were; the same query_table issued afterwards returns no rows; when the
\* pre-check finds nothing the empty list is returned and no DELETE is executed.
\* For an equality-filter map, and for the raw filters x.in.2 and y.is.null, the
\* rows found are the stored rows with those values.
C11_DeleteRecords ==
    call.op = "delete_records" /\ conn.trace # <<>> /\ conn.trace[1].status = "ok" =>
        /\ call.status = "ok" /\ call.value = PyList(conn.trace[1].rows)
        /\ Dicts(Removed) = conn.trace[1].rows
        /\ conn.db = SelectSeq(call.before, LAMBDA r : r \in Range(conn.db))
        /\ query_table(conn, call.args.table, <<"*">>, call.args.filters, None, NoLimit, NoLimit,
                       call.args.raw_filters).value = PyList(<<>>)
        /\ DeletesExecuted = (IF conn.trace[1].rows = <<>> THEN {} ELSE {2})
        /\ conn.trace[1].rows = <<>> => conn.db = call.before
        /\ call.args.raw_filters = None /\ PlainFilters(call.args.filters) =>
               Removed = SelectSeq(call.before,
                                   LAMBDA r : \A f \in DOMAIN call.args.filters :
                                       ColumnValue(r, call.args.filters[f][1])
                                       = call.args.filters[f][2])
        /\ call.args.raw_filters \in {<<"x", ".", "i", "n", ".", "2">>, <<"y", ".", "i", "s", ".", "n", "u", "l", "l">>} =>
               Removed = SelectSeq(call.before,
                                   LAMBDA r : RawSelects(call.args.raw_filters, r))

\* a delete through a raw filter that removed one of the two rows of the table
C11_Witness ==
    /\ call.op = "delete_records" /\ call.args.raw_filters = <<"y", ".", "i", "s", ".", "n", "u", "l", "l">>
    /\ call.status = "ok" /\ Len(call.before) = 2 /\ Len(conn.db) = 1
    /\ Len(call.value.items) = 1

(***************************************************************************)
(* mod.py: the commands insert_db, update_db and delete_db, each run by a  *)
(* task.  A command takes db_write_lock around its one client call; a task *)
(* that finds the lock taken is suspended in acquire() until release()     *)
(* sets its future, and can be cancelled there.  The steps of a task are   *)
(* its call up to the lock, its resumption, each get_cursor block of the   *)
(* client call (the pre-check and the write of update_records and          *)
(* delete_records commit separately), and the exit of the lock block.      *)
(* Any task may take the next step: the schedules of one event loop, where *)
(* a command that got the lock runs to its release, are among them.        *)
(* SQLiteClient.execute_sql takes no lock; a task that calls it with       *)
(* unsafe=True is a writer with direct access to the backend.              *)
(***************************************************************************)

\* Lock._wake_up_first: the future of the first waiter is set
wake_up_first(l) ==
    IF l.waiters = <<>> THEN l ELSE [l EXCEPT !.woken = @ \cup {Head(l.waiters)}]

\* mutant: a release that wakes nobody
release_silent(l) == [l EXCEPT !.locked = FALSE]

\* Lock.release, at the exit of the async with block
release(l) == wake_up_first([l EXCEPT !.locked = FALSE])

\* mutant: an acquire that never waits
CanAcquire_always(l) == TRUE

\* Lock.acquire returns at once when the lock is free and nobody waits for it
CanAcquire(l) == ~l.locked /\ l.waiters = <<>>

\* the lock once the waiter t has left acquire(), resumed or cancelled
Left(l, t) ==
    [l EXCEPT !.waiters = SelectSeq(@, LAMBDA u : u # t), !.woken = @ \ {t}]

\* acquire() of a cancelled waiter: it leaves the queue and, the lock being
\* free, passes the wake-up on
CancelledIn(l) == IF l.locked THEN l ELSE wake_up_first(l)

\* what a command returns
Message(text, table, value) == [text |-> text, table |-> table, value |-> value]

Unavailable == Message("Error: Database client unavailable", <<>>, PyNone)
Cancellation == Message("Operation was cancelled while waiting for database lock.", <<>>, PyNone)

\* utils.format_error_response(e): the report of a backend error
format_error_response(e) == Message("Error", <<>>, PyStr(e))

\* bool(value) of what a client method returned
Truthy(value) ==
    IF value.t \in {"list", "dict"} THEN value.items # <<>>
    ELSE IF value.t = "int" THEN value.i # 0
    ELSE value.t # "NoneType"

\* insert_db after the lock block
InsertMessage(table, r) ==
    IF r.status # "ok" THEN format_error_response(r.status)
    ELSE IF ~Truthy(r.value)
    THEN Message("Record was inserted into '{table}', but no data was returned.", table, PyNone)
    ELSE Message("Successfully inserted record into '{table}':{json}", table, r.value)

\* update_db after the lock block
UpdateMessage(table, r) ==
    IF r.status # "ok" THEN format_error_response(r.status)
    ELSE IF r.value = PyInt(0)
    THEN Message("No records in '{table}' were updated matching the filter criteria.", table, PyNone)
    ELSE Message("Successfully updated {rowcount} record(s) in '{table}'", table, r.value)

\* delete_db after the lock block
DeleteMessage(table, r) ==
    IF r.status # "ok" THEN format_error_response(r.status)
    ELSE IF ~Truthy(r.value)
    THEN Message("No records in '{table}' were deleted matching the filter criteria.", table, PyNone)
    ELSE Message("Successfully deleted {count} record(s) from '{table}':{json}", table, r.value)

CommandMessage(op, table, r) ==
    IF op = "insert_db" THEN InsertMessage(table, r)
    ELSE IF op = "update_db" THEN UpdateMessage(table, r)
    ELSE DeleteMessage(table, r)

ModCalls ==
    [op : {"insert_db"}, table : {TableName}, data : {Dict1(ColX, One), Dict1(ColY, One)}]
    \cup [op : {"update_db"}, table : {TableName}, data : {Dict1(ColY, One)},
          filters : {Dict1(ColX, One)}, raw_filters : {None}]
    \cup [op : {"delete_db"}, table : {TableName}, filters : {Dict1(ColX, One)},
          raw_filters : {None}]
    \cup [op : {"execute_sql"}, query : {<<"D", "E", "L", "E", "T", "E", " ", "F", "R", "O", "M", " ", "t">>}, params : {<<>>}, unsafe : {TRUE}]

Commands == {"insert_db", "update_db", "delete_db"}

\* what the method r of the client gave, as the task keeps it
Outcome(r) == [status |-> r.status, value |-> r.value]

\* the task after a client step that gave r
Stepped(tk, r, pc_) ==
    [tk EXCEPT !.pc = pc_, !.result = Outcome(r),
               !.statements = @ + Len(r.conn.trace)]

\* the rows of before that are not in after
Gone(before, after) == SelectSeq(before, LAMBDA row : row \notin Range(after))

\* the tasks are numbered in the order of their calls
IsNext(t) == task[t].pc = "idle" /\ \A u \in Tasks : u < t => task[u].pc # "idle"

\* a task calls a command: get_db_client, then the lock is taken or waited for
StartCommand(t) ==
    /\ IsNext(t)
    /\ \E a \in ModCalls :
        /\ a.op \in Commands
        /\ a.op = "insert_db" =>
               Cardinality({u \in Tasks : task[u].op = "insert_db"}) < MaxRowid
        /\ IF CanAcquire(lock)
           THEN /\ lock' = [lock EXCEPT !.locked = TRUE]
                /\ task' = [task EXCEPT ![t] = [@ EXCEPT !.pc = "locked", !.op = a.op,
                                                        !.args = a, !.holds = TRUE]]
           ELSE /\ lock' = [lock EXCEPT !.waiters = Append(@, t)]
                /\ task' = [task EXCEPT ![t] = [@ EXCEPT !.pc = "waiting", !.op = a.op,
                                                        !.args = a]]
    /\ UNCHANGED <<clientVars, parserVars, singletonVars>>

\* get_db_client gave no client: SQLiteClient.get_instance raised
NoClient(t) ==
    /\ IsNext(t)
    /\ \E a \in ModCalls :
        /\ a.op \in Commands
        /\ task' = [task EXCEPT ![t] = [@ EXCEPT !.pc = "done", !.op = a.op, !.args = a,
                                                !.outcome = Unavailable]]
    /\ UNCHANGED <<lock, clientVars, parserVars, singletonVars>>

\* the waiter whose future was set takes the lock
Resume(t) ==
    /\ task[t].pc = "waiting" /\ t \in lock.woken
    /\ lock' = [Left(lock, t) EXCEPT !.locked = TRUE]
    /\ task' = [task EXCEPT ![t] = [@ EXCEPT !.pc = "locked", !.holds = TRUE]]
    /\ UNCHANGED <<clientVars, parserVars, singletonVars>>

\* mutant: the cancellation is swallowed and the command goes on into the lock block
Cancel_ignored(t) ==
    /\ task[t].pc = "waiting"
    /\ lock' = [Left(lock, t) EXCEPT !.locked = TRUE]
    /\ task' = [task EXCEPT ![t] = [@ EXCEPT !.pc = "locked", !.holds = TRUE,
                                            !.cancelled = TRUE]]
    /\ UNCHANGED <<clientVars, parserVars, singletonVars>>

\* the task is cancelled while it waits: CancelledError is raised in acquire()
\* and caught by the command
Cancel(t) ==
    /\ task[t].pc = "waiting"
    /\ lock' = CancelledIn(Left(lock, t))
    /\ task' = [task EXCEPT ![t] = [@ EXCEPT !.pc = "done", !.outcome = Cancellation,
                                            !.cancelled = TRUE]]
    /\ UNCHANGED <<clientVars, parserVars, singletonVars>>

\* the client method of the task t gave r: the connection and the task after it
Ran(t, r, pc_) ==
    /\ conn' = Fresh(r.conn)
    /\ task' = [task EXCEPT ![t] = Stepped(@, r, pc_)]

\* insert_db inside the lock: db_client.insert_record
InsertDb(t) ==
    /\ task[t].pc = "locked" /\ task[t].op = "insert_db"
    /\ Ran(t, insert_record(Fresh(conn), task[t].args.table, task[t].args.data), "exit")
    /\ UNCHANGED <<lock, tableKind, call, parserVars, singletonVars>>

\* the task after the pre-check gave r
Checked(tk, r) ==
    IF r.status = "ok" /\ r.value.items # <<>>
    THEN [Stepped(tk, r, "write") EXCEPT !.checked = r.value]
    ELSE Stepped(tk, r, "exit")

\* the pre-check of the task t gave r
RanCheck(t, r) ==
    /\ conn' = Fresh(r.conn)
    /\ task' = [task EXCEPT ![t] = Checked(@, r)]

\* update_db and delete_db inside the lock: the pre-check of update_records and
\* delete_records, a query_table that commits
PreCheck(t) ==
    /\ task[t].pc = "locked" /\ task[t].op \in {"update_db", "delete_db"}
    /\ RanCheck(t, query_table(Fresh(conn), task[t].args.table, <<"*">>,
                                task[t].args.filters, None, NoLimit, NoLimit,
                                task[t].args.raw_filters))
    /\ UNCHANGED <<lock, tableKind, call, parserVars, singletonVars>>

\* the write of update_records or delete_records for the command a
WriteOf(c, a, records) ==
    IF a.op = "update_db"
    THEN UpdateWrite(c, a.table, a.data, WhereClause(a.filters, a.raw_filters))
    ELSE DeleteWrite(c, a.table, WhereClause(a.filters, a.raw_filters), records)

\* the rows the write r touched: the count the UPDATE reported, the rows the
\* DELETE removed
Affected(a, before, r) ==
    IF r.status # "ok" THEN PyNone
    ELSE IF a.op = "update_db" THEN r.value
    ELSE PyList(Dicts(Gone(before, r.conn.db)))

\* the write of the task t gave r
RanWrite(t, r) ==
    /\ conn' = Fresh(r.conn)
    /\ task' = [task EXCEPT ![t] =
                    [Stepped(@, r, "exit") EXCEPT !.affected = Affected(task[t].args, conn.db, r)]]

\* the UPDATE or DELETE, in its own get_cursor block
Write(t) ==
    /\ task[t].pc = "write"
    /\ RanWrite(t, WriteOf(Fresh(conn), task[t].args, task[t].checked))
    /\ UNCHANGED <<lock, tableKind, call, parserVars, singletonVars>>

\* the exit of the async with block, by return or by exception, and the
\* message the command returns
Exit(t) ==
    /\ task[t].pc = "exit"
    /\ lock' = release(lock)
    /\ task' = [task EXCEPT ![t] =
                    [@ EXCEPT !.pc = "done", !.holds = FALSE,
                              !.outcome = CommandMessage(task[t].op, task[t].args.table,
                                                         task[t].result)]]
    /\ UNCHANGED <<clientVars, parserVars, singletonVars>>

\* a caller of the client takes execute_sql with unsafe=True
StartExecute(t) ==
    /\ IsNext(t)
    /\ \E a \in ModCalls :
        /\ a.op = "execute_sql"
        /\ task' = [task EXCEPT ![t] = [@ EXCEPT !.pc = "execute", !.op = a.op, !.args = a]]
    /\ UNCHANGED <<lock, clientVars, parserVars, singletonVars>>

\* SQLiteClient.execute_sql runs its statement
RawExecute(t) ==
    /\ task[t].pc = "execute"
    /\ Ran(t, execute_sql(Fresh(conn), task[t].args.query, task[t].args.params,
                           task[t].args.unsafe), "done")
    /\ UNCHANGED <<lock, tableKind, call, parserVars, singletonVars>>

\* the rows a database file may hold when the client opens it
StoredRows == {<<>>, <<[rid |-> 1, x |-> One, y |-> PyNone]>>}

\* the client of get_db_client on a table declared without a rowid column of
\* its own, no command called yet
ModInit ==
    /\ tableKind = "implicit"
    /\ \E rows \in StoredRows : conn = [NewConnection(0) EXCEPT !.db = rows, !.work = rows]
    /\ call = NoCall
    /\ fn = "none" /\ input = <<>> /\ pc = "idle" /\ result = NoResult
    /\ lock = NewLock /\ task = [t \in Tasks |-> IdleTask]
    /\ NoGetInstance

ModNext ==
    \E t \in Tasks :
        \/ StartCommand(t) \/ NoClient(t) \/ Resume(t) \/ Cancel(t) \/ InsertDb(t)
        \/ PreCheck(t) \/ Write(t) \/ Exit(t) \/ StartExecute(t) \/ RawExecute(t)

SpecMod == ModInit /\ [][ModNext]_vars

(***************************************************************************)
(* Claims about the commands and the lock (C12 to C14), checked under      *)
(* SpecMod.                                                                *)
(***************************************************************************)

\* the task t ran its UPDATE or DELETE, and the rows the statement touched are
\* not the rows its pre-check returned
Diverged(t) ==
    /\ task[t].affected # PyNone
    /\ IF task[t].op = "update_db"
       THEN task[t].affected # PyInt(Len(task[t].checked.items))
       ELSE task[t].affected # task[t].checked

\* no statement has reached the backend from a writer that does not take the lock
NoBypass == \A u \in Tasks : task[u].op = "execute_sql" => task[u].statements = 0

\* C12: the pre-check and the write of update_records and delete_records are
\* separate committed steps; as long as every statement that reached the backend
\* came from a command holding db_write_lock, the rows an UPDATE or DELETE
\* touched are the rows its pre-check returned (for update_db as many rows as
\* the pre-check returned).  A writer that bypasses the lock can break this:
\* C12_Witness.
C12_PreCheckAndWrite ==
    NoBypass => \A t \in Tasks : ~Diverged(t)

\* delete_db returned rows that its DELETE did not remove, a writer without the
\* lock having emptied the table between the pre-check and the DELETE
C12_Witness ==
    \E t, u \in Tasks :
        /\ task[t].op = "delete_db" /\ task[t].pc = "done" /\ Diverged(t)
        /\ task[t].outcome.value = task[t].checked /\ task[t].affected = PyList(<<>>)
        /\ task[u].op = "execute_sql" /\ task[u].statements = 1

\* the task t is in a mutating operation that has statements to run against the
\* backend: inside insert_record, update_records or delete_records, or inside
\* execute_sql with unsafe=True
Mutating(t) == task[t].pc \in {"locked", "write", "execute"}

\* C13: every mutating operation runs inside the exclusive-write section: at
\* most one task is in a mutating operation, and a task that is in one holds
\* db_write_lock.
C13_ExclusiveWrites ==
    /\ Cardinality({t \in Tasks : Mutating(t)}) <= 1
    /\ \A t \in Tasks : Mutating(t) => task[t].holds /\ lock.locked

\* the task t ended with the report of a backend error
BackendError(t) ==
    task[t].pc = "done" /\ task[t].result.status \notin {"ok", "none"}

\* C14: a command cancelled while it waited for db_write_lock has run no
\* statement against the backend, does not hold the lock (which, when it is
\* taken, is held by another task), and has returned the cancellation message;
\* no command that ended with a backend error returned that message.
C14_CancelledWhileWaiting ==
    \A t \in Tasks :
        task[t].cancelled =>
            /\ task[t].pc = "done" /\ task[t].statements = 0 /\ task[t].result = NoResult
            /\ ~task[t].holds
            /\ lock.locked => \E u \in Tasks \ {t} : task[u].holds
            /\ t \notin Range(lock.waiters) /\ t \notin lock.woken
            /\ task[t].outcome = Cancellation
            /\ \A u \in Tasks : BackendError(u) => task[u].outcome # task[t].outcome

\* one command was cancelled in the queue of the lock while another held it,
\* and the holder then ended with a backend error
C14_Witness ==
    \E t, u \in Tasks :
        /\ task[t].cancelled /\ task[t].op \in Commands
        /\ BackendError(u) /\ task[u].op \in Commands
        /\ task[u].outcome = format_error_response(task[u].result.status)
        /\ ~lock.locked

(***************************************************************************)
(* Claims about execute_sql (C15), checked under SpecSql, and about the     *)
(* statements the client builds (C16 to C19), checked under Spec.          *)
(***************************************************************************)

\* the lowercased text holds one of drop, truncate, delete, update, alter
Destructive(query) ==
    \E keyword \in {<<"d", "r", "o", "p">>, <<"t", "r", "u", "n", "c", "a", "t", "e">>, <<"d", "e", "l", "e", "t", "e">>, <<"u", "p", "d", "a", "t", "e">>, <<"a", "l", "t", "e", "r">>} :
        \E i \in 1..Len(query) :
            /\ i + Len(keyword) - 1 <= Len(query)
            /\ \A j \in 1..Len(keyword) : LowerChar(query[i + j - 1]) = keyword[j]

\* C15: execute_sql with unsafe=False raises for a statement whose lowercased
\* text holds one of the five keywords, also inside an identifier, having
\* executed nothing and left the database as it was; every other statement,
\* and every statement with unsafe=True, is passed to the backend as given,
\* and the call ends as that execution ended.
C15_ExecuteSql ==
    call.op = "execute_sql" =>
        IF ~call.args.unsafe /\ Destructive(call.args.query)
        THEN /\ call.status = "ValueError"
             /\ conn.trace = <<>>
             /\ conn.db = call.before /\ conn.work = call.before
        ELSE /\ Len(conn.trace) = 1
             /\ conn.trace[1].query = call.args.query
             /\ conn.trace[1].params = call.args.params
             /\ call.status = conn.trace[1].status
             /\ call.status = "ok" => call.value = PyList(conn.trace[1].rows)

\* a SELECT on a table whose name holds "update" was rejected on a table with a row
C15_Witness ==
    /\ call.op = "execute_sql" /\ ~call.args.unsafe
    /\ call.args.query = <<"S", "E", "L", "E", "C", "T", " ", "*", " ", "F", "R", "O", "M", " ", "u", "p", "d", "a", "t", "e", "s">>
    /\ call.status = "ValueError" /\ conn.trace = <<>> /\ conn.db # <<>>

\* "column = ?" for each item of an equality-filter map, in its order
EqualityClauses(filters) == [i \in DOMAIN filters |-> filters[i][1] \o <<" ", "=", " ", "?">>]

\* the clauses and the parameters a WHERE clause is to have, raw being what the
\* parser made of the raw filters
ExpectedClauses(filters, raw) ==
    IF raw.sql # <<>> THEN Append(EqualityClauses(filters), raw.sql) ELSE EqualityClauses(filters)

ExpectedParams(filters, raw) ==
    IF raw.sql # <<>> THEN Values(filters) \o raw.params ELSE Values(filters)

\* the text begins with head, and then with " WHERE " and the clauses joined by
\* " AND ", or has no WHERE at all when there are no clauses
WhereIs(text, head, clauses) ==
    IF clauses = <<>> THEN StartsWith(text, head) /\ ~Contains(text, <<"W", "H", "E", "R", "E">>)
    ELSE StartsWith(text, head \o <<" ", "W", "H", "E", "R", "E", " ">> \o Join(clauses, <<" ", "A", "N", "D", " ">>))

C16_Holds(q, filters, raw) ==
    /\ WhereIs(q.query, <<"S", "E", "L", "E", "C", "T", " ", "*", " ", "F", "R", "O", "M", " ">> \o call.args.table, ExpectedClauses(filters, raw))
    /\ q.params = ExpectedParams(filters, raw)

\* C16: the statement query_table executes has, after the table name, " WHERE "
\* and the AND-join of one "column = ?" per equality filter in map order, then
\* the raw-filter clause when it is not empty; its parameters are the
\* equality-filter values in that order, then the raw-filter parameters; with
\* no clause at all the text has no WHERE.
C16_WhereClause ==
    call.op = "query_table" /\ conn.trace # <<>> =>
        C16_Holds(conn.trace[1], call.args.filters, parse_raw_filters(call.args.raw_filters))

\* two equality filters, y before x, and a raw filter on x
C16_Witness ==
    /\ call.op = "query_table" /\ call.status = "ok"
    /\ call.args.filters = Dict2(ColY, One, ColX, Two)
    /\ conn.trace[1].query = <<"S", "E", "L", "E", "C", "T", " ", "*", " ", "F", "R", "O", "M", " ", "t", " ", "W", "H", "E", "R", "E", " ", "y", " ", "=", " ", "?", " ", "A", "N", "D", " ", "x", " ", "=", " ", "?", " ", "A", "N", "D", " ", "x", " ", ">", " ", "?">>
    /\ conn.trace[1].params = <<One, Two, One>>
    /\ conn.db # <<>>

\* the column of an order argument: what stands before its first dot
OrderColumn(order) == Split(order, ".", 1)[1]

\* the direction of an order argument: DESC for the suffix desc in any case, ASC
\* for a bare column and for every other suffix
OrderDirection(order) ==
    IF "." \in Range(order) /\ Lower(Split(order, ".", 1)[2]) = <<"d", "e", "s", "c">> THEN <<"D", "E", "S", "C">> ELSE <<"A", "S", "C">>

EndsWith(s, suffix) ==
    Len(s) >= Len(suffix) /\ SubSeq(s, Len(s) - Len(suffix) + 1, Len(s)) = suffix

\* C17: for every order argument query_table executes a statement (it does not
\* fail before), and that statement ends with ORDER BY, the column and an
\* explicit direction: ASC for a bare column, for column.asc and for any other
\* suffix, DESC for column.desc in any case.
C17_OrderBy ==
    call.op = "query_table" /\ call.args.order # None =>
        /\ conn.trace # <<>>
        /\ EndsWith(conn.trace[1].query,
                    <<" ", "O", "R", "D", "E", "R", " ", "B", "Y", " ">> \o OrderColumn(call.args.order) \o <<" ">>
                    \o OrderDirection(call.args.order))

\* what follows the table name in the SELECT of the pre-check: its WHERE clause
WhereOf(select, table) ==
    SubSeq(select, Len(<<"S", "E", "L", "E", "C", "T", " ", "*", " ", "F", "R", "O", "M", " ">> \o table) + 1, Len(select))

\* C18: the UPDATE that update_records executes is "UPDATE table SET c1 = ?, ..."
\* followed by exactly the WHERE clause of the SELECT that query_table executed
\* for the pre-check; its parameters are the values of data in order, then the
\* parameters of that SELECT; and when it succeeds it reports as many rows as
\* the pre-check returned.
C18_UpdateStatement ==
    call.op = "update_records" /\ Len(conn.trace) = 2 =>
        /\ StartsWith(conn.trace[1].query, <<"S", "E", "L", "E", "C", "T", " ", "*", " ", "F", "R", "O", "M", " ">> \o call.args.table)
        /\ conn.trace[2].query =
               <<"U", "P", "D", "A", "T", "E", " ">> \o call.args.table \o <<" ", "S", "E", "T", " ">>
               \o Join([i \in DOMAIN call.args.data |-> call.args.data[i][1] \o <<" ", "=", " ", "?">>], <<",", " ">>)
               \o WhereOf(conn.trace[1].query, call.args.table)
        /\ conn.trace[2].params = Values(call.args.data) \o conn.trace[1].params
        /\ conn.trace[2].status = "ok" => conn.trace[2].rowcount = Len(conn.trace[1].rows)

\* an update with an equality filter and a raw filter that changed one row of two
C18_Witness ==
    /\ call.op = "update_records" /\ call.status = "ok" /\ call.value = One
    /\ Len(call.before) = 2
    /\ conn.trace[2].query = <<"U", "P", "D", "A", "T", "E", " ", "t", " ", "S", "E", "T", " ", "y", " ", "=", " ", "?", " ", "W", "H", "E", "R", "E", " ", "x", " ", "=", " ", "?", " ", "A", "N", "D", " ", "y", " ", "I", "S", " ", "N", "U", "L", "L">>
    /\ conn.trace[2].params = <<One, One>>

\* the rows of the table that the last call added
Added == SelectSeq(conn.db, LAMBDA r : r \notin Range(call.before))

\* whether the stored row holds every column/value of data
HoldsData(row, data) == \A i \in DOMAIN data : ColumnValue(row, data[i][1]) = data[i][2]

\* whether the query q returned a row (a dict) that contains every pair of data
ReturnsRowWith(q, data) ==
    /\ q.status = "ok"
    /\ \E k \in DOMAIN q.value.items :
           \A j \in DOMAIN data : data[j] \in Range(q.value.items[k].items)

\* whether query_table with the equality filter data[i] returns such a row
FoundBy(data, i) ==
    ReturnsRowWith(query_table(Fresh(conn), call.args.table, <<"*">>, <<data[i]>>,
                               None, NoLimit, NoLimit, None), data)

\* the round trip of an insert_record call that returned, the columns of data
\* filtered on being those at the positions cols
RoundTrip(cols) ==
    call.op = "insert_record" /\ call.status = "ok" =>
        /\ Len(Added) = 1 /\ HoldsData(Added[1], call.args.data)
        /\ conn.last_insert_rowid # 0 =>
               /\ call.value = AsDict(Added[1])
               /\ Added[1].rid = conn.last_insert_rowid
        /\ conn.last_insert_rowid = 0 => call.value = PyDict(<<>>)
        /\ \A i \in cols : FoundBy(call.args.data, i)

\* C19 as stated: after insert_record(table, data) returns, the table holds a new
\* row with every column/value of data, the value returned is that row re-fetched
\* by its rowid (the empty dict when lastrowid is 0), and query_table with an
\* equality filter on any column of data returns a row containing all of data.
C19_RoundTrip_AnyColumn == RoundTrip(DOMAIN call.args.data)

\* C19, amended: as above, the filter being on any column of data whose value is
\* not None.
C19_RoundTrip ==
    RoundTrip({i \in DOMAIN call.args.data : call.args.data[i][2] # PyNone})

\* insert_record('t', {'x': 1, 'y': 1}) returned the row it stored
C19_Witness ==
    /\ call.op = "insert_record" /\ call.status = "ok"
    /\ call.args.data = Dict2(ColX, One, ColY, One)
    /\ call.value = PyDict(<<<<ColX, One>>, <<ColY, One>>>>)
    /\ call.before # <<>>
    /\ FoundBy(call.args.data, 2)

(***************************************************************************)
(* The singleton accessor: SQLiteClient.get_instance, reset_instance and   *)
(* get_db_client of mod.py.  A path is a string; an instance is the record *)
(* of its attributes with the number of the call that constructed it.      *)
(***************************************************************************)

\* the largest number of get_instance calls in a behaviour
MaxCalls == 3

SharedMemory == <<"f", "i", "l", "e", ":", "m", "i", "n", "d", "r", "o", "o", "t", "_", "s", "h", "a", "r", "e", "d", "_", "d", "b", "?", "m", "o", "d", "e", "=", "m", "e", "m", "o", "r", "y", "&", "c", "a", "c", "h", "e", "=", "s", "h", "a", "r", "e", "d">>

\* os.path.join(DEFAULT_DB_DIR, DEFAULT_DB_FILE)
DefaultDbPath == <<"d", "a", "t", "a", "/", "s", "q", "l", "i", "t", "e", "/", "m", "i", "n", "d", "r", "o", "o", "t", ".", "d", "b">>

\* os.path.join(DEFAULT_DB_DIR, DEFAULT_SCHEMA_FILE)
DefaultSchemaPath == <<"d", "a", "t", "a", "/", "s", "q", "l", "i", "t", "e", "/", "c", "r", "e", "a", "t", "e", "_", "d", "b", ".", "s", "q", "l">>

\* os.environ.get("SQLITE_IN_MEMORY", "false").lower() == "true", the variable
\* being unset when environ is empty
in_memory_mode ==
    Lower(IF environ = <<>> THEN <<"f", "a", "l", "s", "e">> ELSE environ) = <<"t", "r", "u", "e">>

\* the db_path that get_instance hands to the constructor
ConstructorPath(db_path) ==
    IF in_memory_mode THEN SharedMemory
    ELSE IF db_path # None /\ StartsWith(db_path, <<"f", "i", "l", "e", ":">>) THEN SharedMemory
    ELSE IF db_path = None THEN DefaultDbPath
    ELSE db_path

\* how far a construction gets: to the end, to an exception of sqlite3.connect,
\* or to an exception of a statement executed on the new connection
Constructions == {"ok", "connect", "pragma"}

\* cls(db_path, schema_path): __init__ and _initialize_db
SQLiteClient(id, db_path, schema_path, how) ==
    IF how = "ok"
    THEN [status |-> "ok", connected |-> TRUE,
          instance |-> [id |-> id, db_path |-> db_path, schema_path |-> schema_path]]
    ELSE [status |-> "OperationalError", connected |-> how = "pragma",
          instance |-> NoInstance]

\* get_instance, first statement: reset_instance() when the instance was made
\* for another path than the one asked for
Reset(inst, db_path) ==
    IF inst # NoInstance /\ db_path # None /\ inst.db_path # db_path
    THEN NoInstance ELSE inst

\* get_instance, second statement, inst being _instance after the first
GetOrCreate(inst, id, db_path, schema_path, how) ==
    IF inst = NoInstance
    THEN SQLiteClient(id, ConstructorPath(db_path),
                      IF schema_path = None THEN DefaultSchemaPath ELSE schema_path, how)
    ELSE [status |-> "ok", connected |-> FALSE, instance |-> inst]

\* SQLiteClient.get_instance: when it raises, _instance is what the first
\* statement left
get_instance(inst, id, db_path, schema_path, how) ==
    GetOrCreate(Reset(inst, db_path), id, db_path, schema_path, how)

\* the db_path that get_db_client passes to get_instance
ClientPath(db_path) ==
    IF db_path # None THEN db_path
    ELSE IF in_memory_mode THEN SharedMemory
    ELSE DefaultDbPath

DbPaths == {None, <<"d", "/", "a", ".", "d", "b">>, <<"d", "/", "b", ".", "d", "b">>, <<"f", "i", "l", "e", ":", "m">>}
SchemaPaths == {None}
Environs == {<<>>, <<"f", "a", "l", "s", "e">>, <<"T", "r", "u", "e">>}

\* a get_instance call with argument db_path has given r: _instance is what it
\* returned, or None when the constructor raised
Called(via, db_path, r) ==
    /\ calls' = calls + 1
    /\ instance' = r.instance
    /\ history' = Append(history,
                         [via |-> via, db_path |-> db_path, status |-> r.status,
                          returned |-> r.instance.id, connected |-> r.connected,
                          created |-> r.instance.id = calls + 1, before |-> instance])
    /\ UNCHANGED <<environ, parserVars, clientVars, modVars>>

GetInstance ==
    /\ calls < MaxCalls
    /\ \E db_path \in DbPaths, schema_path \in SchemaPaths, how \in Constructions :
           Called("get_instance", db_path,
                  get_instance(instance, calls + 1, db_path, schema_path, how))

\* get_db_client: the path it computes, then get_instance (None is returned
\* when get_instance raises)
GetDbClient ==
    /\ calls < MaxCalls
    /\ \E db_path \in DbPaths, schema_path \in SchemaPaths, how \in Constructions :
           Called("get_db_client", ClientPath(db_path),
                  get_instance(instance, calls + 1, ClientPath(db_path), schema_path, how))

\* SQLiteClient.reset_instance, called from outside
ResetInstance ==
    /\ instance' = NoInstance
    /\ history' = <<>>
    /\ UNCHANGED <<environ, calls, parserVars, clientVars, modVars>>

SingletonInit ==
    /\ instance = NoInstance /\ calls = 0 /\ history = <<>>
    /\ environ \in Environs
    /\ conn = NewConnection(0) /\ tableKind = "implicit" /\ call = NoCall
    /\ fn = "none" /\ input = <<>> /\ pc = "idle" /\ result = NoResult
    /\ lock = NewLock /\ task = [t \in Tasks |-> IdleTask]

SingletonNext == GetInstance \/ GetDbClient \/ ResetInstance

SpecSingleton == SingletonInit /\ [][SingletonNext]_vars

\* whether the get_instance calls since the last reset_instance all passed the
\* same db_path argument
SameArgument == \A i, j \in DOMAIN history : history[i].db_path = history[j].db_path

\* the instances those calls returned
Returned == {history[i].returned : i \in {j \in DOMAIN history : history[j].status = "ok"}}

\* the calls among them that opened a connection
Connections == {i \in DOMAIN history : history[i].connected}

\* C20: over the get_instance calls made since the last reset_instance, when all
\* of them passed the same db_path argument (a path, or None), all that returned
\* returned the same instance and at most one connection was opened; and a call
\* that replaced an existing instance by a new one passed a db_path that is not
\* None and differs from the path of the instance it replaced.
C20_Singleton ==
    /\ SameArgument => Cardinality(Returned) <= 1 /\ Cardinality(Connections) <= 1
    /\ \A i \in DOMAIN history :
           history[i].created /\ history[i].before # NoInstance =>
               /\ history[i].db_path # None
               /\ history[i].db_path # history[i].before.db_path

\* the UPDATEs and DELETEs of the last call, by their position in the trace
WritesExecuted == UpdatesExecuted \cup DeletesExecuted

\* C21: update_records and delete_records called with a non-empty raw_filters
\* string execute no UPDATE or DELETE without a WHERE clause, and when none of the
\* raw filter clauses parses and the equality-filter map is empty the table is
\* left as it was.
C21_NeverUnrestricted ==
    call.op \in {"update_records", "delete_records"} /\ call.args.raw_filters # None =>
        /\ \A i \in WritesExecuted : Contains(conn.trace[i].query, <<" ", "W", "H", "E", "R", "E", " ">>)
        /\ call.args.filters = <<>> /\ parse_raw_filters(call.args.raw_filters).sql = <<>> =>
               conn.db = call.before

(***************************************************************************)
(* The commands under fair scheduling.  The event loop resumes a waiter    *)
(* whose future is set, and a command leaves the lock block once its body  *)
(* is done.  The body of the block holds no await: a command that has      *)
(* entered it runs its client call without yielding, so it is not inside   *)
(* the body for ever.  (InsertDb, PreCheck and Write are enabled exactly   *)
(* when the task is in the body and each moves it on, so this is what weak *)
(* fairness of the three says.)  Calls and cancellations come from outside *)
(* and are not forced.                                                     *)
(***************************************************************************)

\* the task t is in the body of the lock block, its client call not finished
Running(t) == task[t].pc \in {"locked", "write"}

Scheduled(t) ==
    /\ WF_vars(Resume(t)) /\ WF_vars(Exit(t))
    /\ []<>~Running(t)

SpecModFair == ModInit /\ [][ModNext]_vars /\ \A t \in Tasks : Scheduled(t)

\* the task t is inside the lock block of its command
Inside(t) == task[t].pc \in {"locked", "write", "exit"}

\* the lock is taken exactly when one command is inside its lock block, and that
\* command holds it
HeldInside ==
    /\ lock.locked <=> \E t \in Tasks : Inside(t)
    /\ \A t \in Tasks : task[t].holds <=> Inside(t)
    /\ Cardinality({t \in Tasks : Inside(t)}) <= 1

\* the task t has returned after running its lock block
Completed(t) == task[t].pc = "done" /\ ~task[t].holds /\ task[t].result # NoResult

\* C22 as stated: the lock is taken only while a command is inside its lock
\* block, and every command that waits for the lock eventually acquires it and
\* completes.
C22_EveryWaiterAcquires ==
    /\ []HeldInside
    /\ \A t \in Tasks : (task[t].pc = "waiting") ~> Completed(t)

\* C22, amended: the lock is taken only while a command is inside its lock block,
\* and every command that waits for the lock eventually either acquires it and
\* completes or, cancelled in the queue, returns without having acquired it.
C22_LockReleased ==
    /\ []HeldInside
    /\ \A t \in Tasks :
           (task[t].pc = "waiting") ~>
               (Completed(t) \/ (task[t].pc = "done" /\ task[t].cancelled))

\* a command has left its lock block by a backend error, another was cancelled
\* in the queue, and the lock, free again, has been handed to a third that waits
C22_Witness ==
    \E t, u, v \in Tasks :
        /\ BackendError(t) /\ task[t].op \in Commands
        /\ task[u].cancelled
        /\ task[v].pc = "waiting" /\ v \in lock.woken
        /\ ~lock.locked

\* the task t ran update_db to a message about its update: it was not cancelled,
\* it had a client, and the client raised nothing
Reported(t) ==
    /\ task[t].op = "update_db" /\ task[t].pc = "done"
    /\ ~task[t].cancelled /\ task[t].result.status = "ok"

\* the update of the task t changed no row: its pre-check found none, or its
\* UPDATE reported a count of 0
ChangedNone(t) == task[t].checked = PyNone \/ task[t].affected = PyInt(0)

NoRecordsUpdated == "No records in '{table}' were updated matching the filter criteria."
SuccessfullyUpdated == "Successfully updated {rowcount} record(s) in '{table}'"

\* C23: update_db returns the "No records ... were updated" message exactly when
\* the update changed no row, the pre-check of update_records finding none
\* included, and the "Successfully updated N record(s)" message only with N a
\* positive integer.
C23_UpdateOutcome ==
    \A t \in Tasks :
        Reported(t) =>
            /\ task[t].outcome.text = NoRecordsUpdated <=> ChangedNone(t)
            /\ task[t].outcome.text = SuccessfullyUpdated =>
                   task[t].outcome.value.t = "int" /\ task[t].outcome.value.i > 0

====
